---- MODULE Spec2Model ----
(***************************************************************************)
(* Model of the blumi PostBot backend: the job map and background job task *)
(* of backend/api.py, the async orchestrator make_video of backend/main.py *)
(* and the overlay step merge_caption of compositor/composer.py.           *)
(*                                                                         *)
(* One run is one call of make_video.  A run is entered either through     *)
(* POST /run (api.py run_postbot, then the background task _run_job_task)  *)
(* or through the synchronous wrapper run_make_video of main.py.           *)
(*                                                                         *)
(* Coroutines of the API server share one event loop: the code between two *)
(* awaits runs without any other coroutine interleaving.  The model keeps  *)
(* one step per statement and lets another coroutine of the server step    *)
(* only while every job task is suspended (see Busy).  The blocking stage  *)
(* functions run in worker threads (asyncio.to_thread) and finish at any   *)
(* time, also after the orchestrator has stopped waiting for them.         *)
(*                                                                         *)
(* Spec and LiveSpec follow the runs; ServeSpec adds the read requests of  *)
(* the API; IdSpec follows the job map when job ids are drawn at random;   *)
(* EvalSpec evaluates the pure functions of the pipeline on bounded inputs.*)
(***************************************************************************)
EXTENDS Integers, Sequences, FiniteSets

MaxRuns == 1

Runs == 1..MaxRuns

Stages == {"narration", "footage", "synthesis", "caption", "mux", "overlay"}

VARIABLES
    entry,          \* how the run was entered: "none", "api" (POST /run) or "cli" (run_make_video)
    impl,           \* module whose make_video the run uses
    pc,             \* position of the run's coroutine
    work,           \* per stage: state of the blocking stage function in its worker thread
    starts,         \* per stage: how many times the stage was launched
    exc,            \* exception that ended the run ("none" while there is none)
    timedOut,       \* stage whose asyncio.wait_for expired ("none" if no wait expired)
    lastCompleted,  \* last stage whose await returned a result to make_video
    faulted,        \* some collaborator of the run failed, was slow, or was missing
    JOBS,           \* api.py JOBS: job id -> record
    savePreview,    \* payload["save_preview"]
    fs,             \* files of the run's working directory
    mergeRet,       \* value returned by merge_caption in its thread
    final,          \* make_video's local `final`
    history,        \* the "runs" list of the metadata file
    retained,       \* rotate_old_runs ran for this run
    posted,         \* POSTED_ROOT/<job_id>.mp4 exists
    dirs,           \* directories that exist
    resp,           \* response of the request handled by the step just taken
    assigned,       \* job ids returned by POST /run, in order
    tasks,          \* per submission: position and exception of its background task
    sched,          \* the scheduler: its loop, the loop's in-memory state, state.json
    memory,         \* voice_memory.json, its lock, and the callers of the memory functions
    inp,            \* arguments of the function under evaluation
    out             \* its result

vars == <<entry, impl, pc, work, starts, exc, timedOut, lastCompleted,
          faulted, JOBS, savePreview, fs, mergeRet, final, history,
          retained, posted, dirs, resp, assigned, tasks, sched, memory, inp, out>>

MAIN == "backend.main"

FALLBACK == "backend.bots.postbot.main"

(***************************************************************************)
(* Call signatures.  A Python call whose keyword is not a parameter of the *)
(* callee raises TypeError before the callee's body runs.                  *)
(***************************************************************************)
MakeVideoParams == {"topic", "style", "theme", "run_root"}

FallbackMakeVideoParams == {"topic", "style", "theme", "run_root", "voice_id", "caption_settings"}

ParamsOfMakeVideo(m) == IF m = MAIN THEN MakeVideoParams ELSE FallbackMakeVideoParams

CallKeywords(e) == IF e = "api" THEN {"run_root", "voice_id", "caption_settings"} ELSE {}

AcceptsCall(m, e) == CallKeywords(e) \subseteq ParamsOfMakeVideo(m)

RotateParams == {"base_dir"}

FallbackRotateParams == {"base_dir", "keep"}

ParamsOfRotate(m) == IF m = MAIN THEN RotateParams ELSE FallbackRotateParams

RotateKeywords == {"keep"}

AcceptsRotate(m) == RotateKeywords \subseteq ParamsOfRotate(m)

(***************************************************************************)
(* Module-level names of captioner_async.py.  create_caption_image ends    *)
(* with json.dumps(...): a name that is not bound raises NameError.        *)
(***************************************************************************)
CaptionerGlobals == {"os", "math", "subprocess", "Path", "Image", "ImageDraw", "ImageFont", "ImageFilter", "np", "aiofiles", "tempfile"}

FallbackCaptionerGlobals == CaptionerGlobals \cup {"json"}

GlobalsOfCaptioner(m) == IF m = MAIN THEN CaptionerGlobals ELSE FallbackCaptionerGlobals

(***************************************************************************)
(* Errors.  The job record stores traceback.format_exc(); the model keeps  *)
(* the exception that the traceback names.                                 *)
(***************************************************************************)
StageError(s) ==
    CASE s = "narration" -> "ProviderError"
      [] s = "footage"   -> "No Pexels video found."
      [] s = "synthesis" -> "SynthesisError"
      [] s = "caption"   -> "CaptionError"
      [] s = "mux"       -> "CalledProcessError"
      [] s = "overlay"   -> "merge_caption ffmpeg failed"

Errors == {StageError(s) : s \in Stages} \cup {"NameError", "TypeError", "ImportError", "TimeoutError", "CopyError"}

\* the exceptions raised for a non-zero exit of the media tool: subprocess.run(cmd,
\* check=True) in mix_audio_video, RuntimeError("merge_caption ffmpeg failed") in merge_caption
ToolExitErrors == {StageError("mux"), StageError("overlay")}

\* what the text of the exception says.  mix_audio_video does not capture the tool's
\* output, so CalledProcessError carries the command and the exit status only;
\* merge_caption captures stderr, logs it, and raises a fixed text.
ExceptionText(e) ==
    CASE e = StageError("mux")     -> {"CalledProcessError", "command", "exit status"}
      [] e = StageError("overlay") -> {"RuntimeError", "merge_caption ffmpeg failed"}
      [] OTHER                     -> {e}

PreStageMessages == {"Queued", "Starting run", "Generating narration & fetching media"}

FileNames == {"final.mp4", "final_subbed.mp4"}

NoFiles == [f \in FileNames |-> "absent"]

IdleWork == [s \in Stages |-> "idle"]

NoStarts == [s \in Stages |-> 0]

\* the record a handler reads when the id is not a key of JOBS
NoJob == [status |-> "none"]

NoResponse == [op |-> "none", id |-> 0, code |-> 0, detail |-> "", job |-> NoJob, path |-> << >>]

NoValue == [fn |-> "none"]

\* no scheduler loop was started; state.json does not exist; api.py:196 binds a
\* local of create_app to None
NoScheduler ==
    [pc |-> "idle", active |-> FALSE, file |-> [exists |-> FALSE, active |-> FALSE],
     post_times |-> << >>, now |-> 0, thread |-> "None", second |-> FALSE]

\* most concurrent callers of the voice memory
MaxCallers == 2

Callers == 1..MaxCallers

\* the keys of the stored memory: topic.lower()
Keys == {"news", "tech"}

\* no entry under a key; an entry is named by the caller whose voice and tone it holds
NoEntry == 0

\* the dict {}
EmptyMemory == [k \in Keys |-> NoEntry]

IdleCaller == [pc |-> "idle", op |-> "none", topic |-> "", data |-> EmptyMemory, ret |-> NoEntry]

\* voice_memory.json does not exist, the lock is free, nobody is calling
NoMemory ==
    [exists |-> FALSE, written |-> FALSE, entries |-> EmptyMemory, lock |-> 0,
     callers |-> [c \in Callers |-> IdleCaller]]

\* the server and its runs at start
InitServer ==
    /\ entry = [r \in Runs |-> "none"]
    /\ impl = [r \in Runs |-> "none"]
    /\ pc = [r \in Runs |-> "idle"]
    /\ work = [r \in Runs |-> IdleWork]
    /\ starts = [r \in Runs |-> NoStarts]
    /\ exc = [r \in Runs |-> "none"]
    /\ timedOut = [r \in Runs |-> "none"]
    /\ lastCompleted = [r \in Runs |-> "none"]
    /\ faulted = [r \in Runs |-> FALSE]
    /\ JOBS = [j \in {} |-> 0]
    /\ savePreview = [r \in Runs |-> TRUE]
    /\ fs = [r \in Runs |-> NoFiles]
    /\ mergeRet = [r \in Runs |-> "None"]
    /\ final = [r \in Runs |-> "None"]
    /\ retained = [r \in Runs |-> FALSE]
    /\ posted = [r \in Runs |-> FALSE]
    /\ dirs = {}
    /\ resp = NoResponse
    /\ assigned = << >>
    /\ tasks = << >>
    /\ sched = NoScheduler
    /\ memory = NoMemory

\* _ensure_file: a metadata file with no runs
InitProgram == InitServer /\ history = << >>

Init ==
    /\ InitProgram
    /\ inp = NoValue
    /\ out = NoValue

(***************************************************************************)
(* Event loop.  A job task that is between two awaits holds the loop.      *)
(***************************************************************************)
SuspendedPcs == {"idle", "queued", "await_narration", "await_footage", "await_synthesis", "await_caption", "await_mux", "await_overlay", "finished"}

\* mutant: request handlers run in other threads and do not wait for the loop
Busy_Never(r) == FALSE

Busy(r) == entry[r] = "api" /\ pc[r] \notin SuspendedPcs

LoopFree(r) == entry[r] = "api" => \A o \in Runs \ {r} : ~Busy(o)

NextRun(r) == entry[r] = "none" /\ \A o \in Runs : o < r => entry[o] # "none"

\* a step that serves no request and evaluates no function
Silent == resp' = NoResponse /\ UNCHANGED <<assigned, tasks, sched, memory, inp, out>>

\* d[k] = v on a dict
DictSet(d, k, v) == [x \in DOMAIN d \cup {k} |-> IF x = k THEN v ELSE d[x]]

\* d.get(k, default)
DictGet(d, k, default) == IF k \in DOMAIN d THEN d[k] ELSE default

SetJob(r, rec) == [j \in DOMAIN JOBS \cup {r} |-> IF j = r THEN rec ELSE JOBS[j]]

\* mutant: the record is created without creating the directory
run_postbot_NoMkdir(r) ==
    /\ NextRun(r)
    /\ \A o \in Runs : ~Busy(o)
    /\ \E sp \in BOOLEAN : savePreview' = [savePreview EXCEPT ![r] = sp]
    /\ entry' = [entry EXCEPT ![r] = "api"]
    /\ JOBS' = SetJob(r, [status |-> "queued", progress |-> 0, message |-> "Queued",
                          workdir |-> <<"CONTENT_ROOT", r>>, final |-> "None"])
    /\ pc' = [pc EXCEPT ![r] = "queued"]
    /\ UNCHANGED <<impl, work, starts, exc, timedOut, lastCompleted, faulted, fs,
                   mergeRet, final, history, retained, posted, dirs>>
    /\ Silent

\* POST /run
run_postbot(r) ==
    /\ NextRun(r)
    /\ \A o \in Runs : ~Busy(o)
    /\ \E sp \in BOOLEAN : savePreview' = [savePreview EXCEPT ![r] = sp]
    /\ entry' = [entry EXCEPT ![r] = "api"]
    /\ JOBS' = SetJob(r, [status |-> "queued", progress |-> 0, message |-> "Queued",
                          workdir |-> <<"CONTENT_ROOT", r>>, final |-> "None"])
    /\ dirs' = dirs \cup {<<"CONTENT_ROOT", r>>}
    /\ pc' = [pc EXCEPT ![r] = "queued"]
    /\ UNCHANGED <<impl, work, starts, exc, timedOut, lastCompleted, faulted, fs,
                   mergeRet, final, history, retained, posted>>
    /\ Silent

\* run_make_video(topic, style, theme): asyncio.run(make_video(topic, style, theme))
run_make_video(r) ==
    /\ NextRun(r)
    /\ entry' = [entry EXCEPT ![r] = "cli"]
    /\ impl' = [impl EXCEPT ![r] = MAIN]
    /\ pc' = [pc EXCEPT ![r] = "call"]
    /\ UNCHANGED <<work, starts, exc, timedOut, lastCompleted, faulted, JOBS, savePreview,
                   fs, mergeRet, final, history, retained, posted,
                   dirs>>
    /\ Silent

\* _run_job_task, first two statements
TaskStart(r) ==
    /\ pc[r] = "queued"
    /\ LoopFree(r)
    /\ JOBS' = [JOBS EXCEPT ![r].status = "running", ![r].message = "Starting run"]
    /\ pc' = [pc EXCEPT ![r] = "resolve"]
    /\ UNCHANGED <<entry, impl, work, starts, exc, timedOut, lastCompleted, faulted,
                   savePreview, fs, mergeRet, final, history, retained, posted,
                   dirs>>
    /\ Silent

\* _run_job_task: import backend.main, else backend.bots.postbot.main, else ImportError
ResolveMakeVideo(r) ==
    /\ pc[r] = "resolve"
    /\ \E m \in {MAIN, FALLBACK, "none"} :
         /\ impl' = [impl EXCEPT ![r] = m]
         /\ IF m = "none"
              THEN /\ exc' = [exc EXCEPT ![r] = "ImportError"]
                   /\ faulted' = [faulted EXCEPT ![r] = TRUE]
                   /\ pc' = [pc EXCEPT ![r] = "except"]
                   /\ UNCHANGED JOBS
              ELSE /\ JOBS' = [JOBS EXCEPT ![r].message = "Generating narration & fetching media"]
                   /\ pc' = [pc EXCEPT ![r] = "call"]
                   /\ UNCHANGED <<exc, faulted>>
    /\ UNCHANGED <<entry, work, starts, timedOut, lastCompleted, savePreview, fs,
                   mergeRet, final, history, retained, posted,
                   dirs>>
    /\ Silent

\* make_video's workdir: run_root, or a fresh tempfile.mkdtemp(prefix="postbot_")
WorkdirOf(r) == IF entry[r] = "api" THEN JOBS[r].workdir ELSE <<"TMP/postbot_", r>>

\* the call make_video(...): argument binding, then workdir.mkdir(parents=True, exist_ok=True)
CallMakeVideo(r) ==
    /\ pc[r] = "call"
    /\ IF AcceptsCall(impl[r], entry[r])
         THEN /\ pc' = [pc EXCEPT ![r] = "launch_narration"]
              /\ dirs' = dirs \cup {WorkdirOf(r)}
              /\ UNCHANGED exc
         ELSE /\ exc' = [exc EXCEPT ![r] = "TypeError"]
              /\ pc' = [pc EXCEPT ![r] = IF entry[r] = "api" THEN "except" ELSE "finished"]
              /\ UNCHANGED dirs
    /\ UNCHANGED <<entry, impl, work, starts, timedOut, lastCompleted, faulted, JOBS,
                   savePreview, fs, mergeRet, final, history, retained, posted>>
    /\ Silent

(***************************************************************************)
(* make_video (backend/main.py).  asyncio.create_task / wait_for launch a  *)
(* stage; its blocking function runs in a worker thread.                   *)
(***************************************************************************)
Launch(r, s, from, to) ==
    /\ pc[r] = from
    /\ work' = [work EXCEPT ![r][s] = "running"]
    /\ starts' = [starts EXCEPT ![r][s] = @ + 1]
    /\ pc' = [pc EXCEPT ![r] = to]
    /\ UNCHANGED <<entry, impl, exc, timedOut, lastCompleted, faulted, JOBS, savePreview,
                   fs, mergeRet, final, history, retained, posted,
                   dirs>>
    /\ Silent

\* wait_for returned the stage's result
AwaitResult(r, s, to) ==
    /\ work[r][s] = "ok"
    /\ lastCompleted' = [lastCompleted EXCEPT ![r] = s]
    /\ final' = [final EXCEPT ![r] = IF s = "overlay" THEN mergeRet[r] ELSE @]
    /\ pc' = [pc EXCEPT ![r] = to]
    /\ UNCHANGED <<exc, timedOut, faulted>>

\* wait_for re-raised the exception of the stage
AwaitError(r, s) ==
    /\ work[r][s] \in Errors
    /\ exc' = [exc EXCEPT ![r] = work[r][s]]
    /\ pc' = [pc EXCEPT ![r] = "mv_except"]
    /\ UNCHANGED <<timedOut, faulted, lastCompleted, final>>

\* wait_for expired while the stage was still running: TimeoutError
AwaitTimeout(r, s) ==
    /\ work[r][s] = "running"
    /\ exc' = [exc EXCEPT ![r] = "TimeoutError"]
    /\ timedOut' = [timedOut EXCEPT ![r] = s]
    /\ faulted' = [faulted EXCEPT ![r] = TRUE]
    /\ pc' = [pc EXCEPT ![r] = "mv_except"]
    /\ UNCHANGED <<lastCompleted, final>>

\* mutant: the stage's exception is swallowed and the pipeline goes on
Await_Swallow(r, s, from, to) ==
    /\ pc[r] = from
    /\ LoopFree(r)
    /\ \/ AwaitResult(r, s, to)
       \/ /\ work[r][s] \in Errors
          /\ pc' = [pc EXCEPT ![r] = to]
          /\ UNCHANGED <<exc, timedOut, faulted, lastCompleted, final>>
       \/ AwaitTimeout(r, s)
    /\ UNCHANGED <<entry, impl, work, starts, JOBS, savePreview, fs, mergeRet,
                   history, retained, posted,
                   dirs>>
    /\ Silent

\* mutant: the timeout is recorded but the pipeline goes on
Await_NoAbort(r, s, from, to) ==
    /\ pc[r] = from
    /\ LoopFree(r)
    /\ \/ AwaitResult(r, s, to)
       \/ AwaitError(r, s)
       \/ /\ work[r][s] = "running"
          /\ timedOut' = [timedOut EXCEPT ![r] = s]
          /\ exc' = [exc EXCEPT ![r] = "TimeoutError"]
          /\ faulted' = [faulted EXCEPT ![r] = TRUE]
          /\ pc' = [pc EXCEPT ![r] = to]
          /\ UNCHANGED <<lastCompleted, final>>
    /\ UNCHANGED <<entry, impl, work, starts, JOBS, savePreview, fs, mergeRet,
                   history, retained, posted,
                   dirs>>
    /\ Silent

\* mutant: a plain await, without wait_for
Await_NoTimeout(r, s, from, to) ==
    /\ pc[r] = from
    /\ LoopFree(r)
    /\ \/ AwaitResult(r, s, to)
       \/ AwaitError(r, s)
    /\ UNCHANGED <<entry, impl, work, starts, JOBS, savePreview, fs, mergeRet,
                   history, retained, posted,
                   dirs>>
    /\ Silent

\* await asyncio.wait_for(<stage>, timeout): result, the stage's exception, or TimeoutError
\* mutant: the timeout also stops the stage's thread
Await_Cancel(r, s, from, to) ==
    /\ pc[r] = from
    /\ LoopFree(r)
    /\ \/ AwaitResult(r, s, to) /\ UNCHANGED work
       \/ AwaitError(r, s) /\ UNCHANGED work
       \/ AwaitTimeout(r, s) /\ work' = [work EXCEPT ![r][s] = "idle"]
    /\ UNCHANGED <<entry, impl, starts, JOBS, savePreview, fs, mergeRet,
                   history, retained, posted,
                   dirs>>
    /\ Silent

Await(r, s, from, to) ==
    /\ pc[r] = from
    /\ LoopFree(r)
    /\ \/ AwaitResult(r, s, to)
       \/ AwaitError(r, s)
       \/ AwaitTimeout(r, s)
    /\ UNCHANGED <<entry, impl, work, starts, JOBS, savePreview, fs, mergeRet,
                   history, retained, posted,
                   dirs>>
    /\ Silent

LaunchNarration(r) == Launch(r, "narration", "launch_narration", "launch_footage")

LaunchFootage(r) == Launch(r, "footage", "launch_footage", "await_narration")

\* mutant: the first wait is on the footage task
AwaitNarration_WrongTask(r) == Await(r, "footage", "await_narration", "launch_synthesis")

AwaitNarration(r) == Await(r, "narration", "await_narration", "launch_synthesis")

LaunchSynthesis(r) == Launch(r, "synthesis", "launch_synthesis", "await_footage")

AwaitFootage(r) == Await(r, "footage", "await_footage", "await_synthesis")

AwaitSynthesis(r) == Await(r, "synthesis", "await_synthesis", "launch_caption")

LaunchCaption(r) == Launch(r, "caption", "launch_caption", "await_caption")

\* mutant: caption placement is launched and not waited for
AwaitCaption_NoWait(r) ==
    /\ pc[r] = "await_caption"
    /\ LoopFree(r)
    /\ pc' = [pc EXCEPT ![r] = "launch_mux"]
    /\ UNCHANGED <<entry, impl, work, starts, exc, timedOut, lastCompleted, faulted, JOBS,
                   savePreview, fs, mergeRet, final, history, retained, posted,
                   dirs>>
    /\ Silent

AwaitCaption(r) == Await(r, "caption", "await_caption", "launch_mux")

LaunchMux(r) == Launch(r, "mux", "launch_mux", "await_mux")

AwaitMux(r) == Await(r, "mux", "await_mux", "launch_overlay")

LaunchOverlay(r) == Launch(r, "overlay", "launch_overlay", "await_overlay")

AwaitOverlay(r) == Await(r, "overlay", "await_overlay", "append_run")

\* mutant: the file is rewritten with the new record only
AppendRun_Rewrite(r) ==
    /\ pc[r] = "append_run"
    /\ history' = <<r>>
    /\ pc' = [pc EXCEPT ![r] = "rotate"]
    /\ UNCHANGED <<entry, impl, work, starts, exc, timedOut, lastCompleted, faulted, JOBS,
                   savePreview, fs, mergeRet, final, retained, posted,
                   dirs>>
    /\ Silent

\* append_run(metadata_entry): read the file, append to "runs", write a temporary
\* file and rename it over the store; the coroutine does not await in between
AppendRun(r) ==
    /\ pc[r] = "append_run"
    /\ history' = Append(history, r)
    /\ pc' = [pc EXCEPT ![r] = "rotate"]
    /\ UNCHANGED <<entry, impl, work, starts, exc, timedOut, lastCompleted, faulted, JOBS,
                   savePreview, fs, mergeRet, final, retained, posted,
                   dirs>>
    /\ Silent

\* rotate_old_runs(Path(tempfile.gettempdir()), keep=keep_runs)
RotateOldRuns(r) ==
    /\ pc[r] = "rotate"
    /\ IF AcceptsRotate(impl[r])
         THEN /\ retained' = [retained EXCEPT ![r] = TRUE]
              /\ pc' = [pc EXCEPT ![r] = "return"]
              /\ UNCHANGED exc
         ELSE /\ exc' = [exc EXCEPT ![r] = "TypeError"]
              /\ pc' = [pc EXCEPT ![r] = "mv_except"]
              /\ UNCHANGED retained
    /\ UNCHANGED <<entry, impl, work, starts, timedOut, lastCompleted, faulted, JOBS,
                   savePreview, fs, mergeRet, final, history, posted,
                   dirs>>
    /\ Silent

\* return final
ReturnFinal(r) ==
    /\ pc[r] = "return"
    /\ pc' = [pc EXCEPT ![r] = IF entry[r] = "api" THEN "update_done" ELSE "finished"]
    /\ UNCHANGED <<entry, impl, work, starts, exc, timedOut, lastCompleted, faulted, JOBS,
                   savePreview, fs, mergeRet, final, history, retained, posted,
                   dirs>>
    /\ Silent

\* except asyncio.TimeoutError / except Exception: log and re-raise
MakeVideoExcept(r) ==
    /\ pc[r] = "mv_except"
    /\ pc' = [pc EXCEPT ![r] = IF entry[r] = "api" THEN "except" ELSE "finished"]
    /\ UNCHANGED <<entry, impl, work, starts, exc, timedOut, lastCompleted, faulted, JOBS,
                   savePreview, fs, mergeRet, final, history, retained, posted,
                   dirs>>
    /\ Silent

(***************************************************************************)
(* Worker threads.                                                         *)
(***************************************************************************)
\* sample_frames_for_layout(video_path, sample_count=3): frame_{i}.jpg
FrameNames == {"frame_0.jpg", "frame_1.jpg", "frame_2.jpg"}

\* the files a stage writes: under make_video's workdir, or under the directory that
\* sample_frames_for_layout makes with tempfile.mkdtemp(prefix="cap_frames_")
StageFiles(s) ==
    CASE s = "narration" -> {}
      [] s = "footage"   -> {[root |-> "workdir", name |-> "bg.mp4"]}
      [] s = "synthesis" -> {[root |-> "workdir", name |-> "narration.mp3"]}
      [] s = "caption"   -> {[root |-> "cap_frames", name |-> n] : n \in FrameNames}
                            \cup {[root |-> "workdir", name |-> "caption.png"],
                                  [root |-> "workdir", name |-> "caption_meta.json"]}
      [] s = "mux"       -> {[root |-> "workdir", name |-> "merged.mp4"]}
      [] s = "overlay"   -> {[root |-> "workdir", name |-> "final.mp4"],
                            [root |-> "workdir", name |-> "final_ffmpeg_debug.txt"],
                            [root |-> "workdir", name |-> "final_subbed.mp4"],
                            [root |-> "workdir", name |-> "burn_subtitles.log"]}

\* the directory a file of the run is written in
RootOf(r, f) == IF f.root = "workdir" THEN WorkdirOf(r) ELSE <<"TMP/cap_frames_", r>>

\* the paths stage s of run r writes
StagePaths(r, s) == {Append(RootOf(r, f), f.name) : f \in StageFiles(s)}

\* an external media tool run: exit status and the state of its output file
ToolOutcomes == {[rc |-> 0, out |-> "nonempty"], [rc |-> 1, out |-> "absent"], [rc |-> 1, out |-> "empty"]}

Written(prev, o) == IF o.out = "absent" THEN prev ELSE o.out

\* merge_caption: subtitle burn-in attempts "subtitles=" then "ass="
BurnIn(prev, o1, o2) ==
    LET f1 == Written(prev, o1)
        f2 == Written(f1, o2)
    IN  IF o1.rc = 0 /\ f1 # "absent" THEN [ret |-> "final_subbed.mp4", sub |-> f1]
        ELSE IF o2.rc = 0 /\ f2 # "absent" THEN [ret |-> "final_subbed.mp4", sub |-> f2]
        ELSE [ret |-> "final.mp4", sub |-> f2]

\* mutant: the exit status of the overlay run is ignored
MergeRaises_Never(o) == FALSE

\* merge_caption raises when the overlay ffmpeg run exits non-zero
MergeRaises(o) == o.rc # 0

\* merge_caption in its thread
MergeCaptionFinish(r) ==
    /\ work[r]["overlay"] = "running"
    /\ \E o \in ToolOutcomes :
         IF MergeRaises(o)
           THEN /\ work' = [work EXCEPT ![r]["overlay"] = StageError("overlay")]
                /\ fs' = [fs EXCEPT ![r]["final.mp4"] = Written(@, o)]
                /\ faulted' = [faulted EXCEPT ![r] = TRUE]
                /\ UNCHANGED mergeRet
           ELSE /\ work' = [work EXCEPT ![r]["overlay"] = "ok"]
                /\ UNCHANGED faulted
                /\ \E ass \in BOOLEAN, o1 \in ToolOutcomes, o2 \in ToolOutcomes :
                     LET b == BurnIn(fs[r]["final_subbed.mp4"], o1, o2)
                     IN  IF ass
                           THEN /\ fs' = [fs EXCEPT ![r]["final.mp4"] = Written(@, o),
                                                    ![r]["final_subbed.mp4"] = b.sub]
                                /\ mergeRet' = [mergeRet EXCEPT ![r] = b.ret]
                           ELSE /\ fs' = [fs EXCEPT ![r]["final.mp4"] = Written(@, o)]
                                /\ mergeRet' = [mergeRet EXCEPT ![r] = "final.mp4"]
    /\ UNCHANGED <<entry, impl, pc, starts, exc, timedOut, lastCompleted, JOBS, savePreview,
                   final, history, retained, posted,
                   dirs>>
    /\ Silent

\* create_caption_image in its thread
CaptionFinish(r) ==
    /\ work[r]["caption"] = "running"
    /\ \/ /\ work' = [work EXCEPT ![r]["caption"] = StageError("caption")]
          /\ faulted' = [faulted EXCEPT ![r] = TRUE]
       \/ /\ work' = [work EXCEPT ![r]["caption"] =
                        IF "json" \in GlobalsOfCaptioner(impl[r]) THEN "ok" ELSE "NameError"]
          /\ UNCHANGED faulted
    /\ UNCHANGED <<entry, impl, pc, starts, exc, timedOut, lastCompleted, JOBS, savePreview,
                   fs, mergeRet, final, history, retained, posted,
                   dirs>>
    /\ Silent

\* generate_narration, fetch_video, synthesize_tts, mix_audio_video in their threads
StageFinish(r, s) ==
    /\ s \in {"narration", "footage", "synthesis", "mux"}
    /\ work[r][s] = "running"
    /\ \/ /\ work' = [work EXCEPT ![r][s] = "ok"]
          /\ UNCHANGED faulted
       \/ /\ work' = [work EXCEPT ![r][s] = StageError(s)]
          /\ faulted' = [faulted EXCEPT ![r] = TRUE]
    /\ UNCHANGED <<entry, impl, pc, starts, exc, timedOut, lastCompleted, JOBS, savePreview,
                   fs, mergeRet, final, history, retained, posted,
                   dirs>>
    /\ Silent

(***************************************************************************)
(* _run_job_task after make_video                                          *)
(***************************************************************************)
\* mutant: the preview is copied whatever save_preview says
UpdateDone_AlwaysCopy(r) ==
    /\ pc[r] = "update_done"
    /\ JOBS' = [JOBS EXCEPT ![r].status = "done", ![r].progress = 100, ![r].final = final[r]]
    /\ pc' = [pc EXCEPT ![r] = "copy"]
    /\ UNCHANGED <<entry, impl, work, starts, exc, timedOut, lastCompleted, faulted,
                   savePreview, fs, mergeRet, final, history, retained, posted,
                   dirs>>
    /\ Silent

\* JOBS[job_id].update({"status": "done", "progress": 100, "final": str(final_path)})
UpdateDone(r) ==
    /\ pc[r] = "update_done"
    /\ JOBS' = [JOBS EXCEPT ![r].status = "done", ![r].progress = 100, ![r].final = final[r]]
    /\ pc' = [pc EXCEPT ![r] = IF savePreview[r] THEN "copy" ELSE "finished"]
    /\ UNCHANGED <<entry, impl, work, starts, exc, timedOut, lastCompleted, faulted,
                   savePreview, fs, mergeRet, final, history, retained, posted,
                   dirs>>
    /\ Silent

\* shutil.copyfile(final_path, dst); JOBS[job_id]["final_copy"] = str(dst)
CopyPreview(r) ==
    /\ pc[r] = "copy"
    /\ \/ /\ fs[r][final[r]] # "absent"
          /\ posted' = [posted EXCEPT ![r] = TRUE]
          /\ JOBS' = [JOBS EXCEPT ![r] = DictSet(@, "final_copy", <<"POSTED_ROOT", r>>)]
          /\ pc' = [pc EXCEPT ![r] = "finished"]
          /\ UNCHANGED <<exc, faulted>>
       \/ /\ exc' = [exc EXCEPT ![r] = "CopyError"]
          /\ faulted' = [faulted EXCEPT ![r] = TRUE]
          /\ pc' = [pc EXCEPT ![r] = "except"]
          /\ UNCHANGED <<posted, JOBS>>
    /\ UNCHANGED <<entry, impl, work, starts, timedOut, lastCompleted, savePreview, fs,
                   mergeRet, final, history, retained,
                   dirs>>
    /\ Silent

\* except Exception: JOBS[job_id]["status"] = "failed"
JobExceptStatus(r) ==
    /\ pc[r] = "except"
    /\ JOBS' = [JOBS EXCEPT ![r].status = "failed"]
    /\ pc' = [pc EXCEPT ![r] = "except_message"]
    /\ UNCHANGED <<entry, impl, work, starts, exc, timedOut, lastCompleted, faulted,
                   savePreview, fs, mergeRet, final, history, retained, posted,
                   dirs>>
    /\ Silent

\* JOBS[job_id]["message"] = tb
JobExceptMessage(r) ==
    /\ pc[r] = "except_message"
    /\ JOBS' = [JOBS EXCEPT ![r].message = exc[r]]
    /\ pc' = [pc EXCEPT ![r] = "finished"]
    /\ UNCHANGED <<entry, impl, work, starts, exc, timedOut, lastCompleted, faulted,
                   savePreview, fs, mergeRet, final, history, retained, posted,
                   dirs>>
    /\ Silent

\* mutant: the handler marks the job failed and keeps the old message
JobExcept_KeepMessage(r) ==
    /\ pc[r] = "except"
    /\ JOBS' = [JOBS EXCEPT ![r].status = "failed"]
    /\ pc' = [pc EXCEPT ![r] = "finished"]
    /\ UNCHANGED <<entry, impl, work, starts, exc, timedOut, lastCompleted, faulted,
                   savePreview, fs, mergeRet, final, history, retained, posted,
                   dirs>>
    /\ Silent

\* except Exception: the two assignments, with no await between them
JobExcept(r) == JobExceptStatus(r) \/ JobExceptMessage(r)

\* one step of the run's coroutine
Orchestrate(r) ==
    \/ TaskStart(r) \/ ResolveMakeVideo(r) \/ CallMakeVideo(r)
    \/ LaunchNarration(r) \/ LaunchFootage(r) \/ AwaitNarration(r)
    \/ LaunchSynthesis(r) \/ AwaitFootage(r) \/ AwaitSynthesis(r)
    \/ LaunchCaption(r) \/ AwaitCaption(r)
    \/ LaunchMux(r) \/ AwaitMux(r)
    \/ LaunchOverlay(r) \/ AwaitOverlay(r)
    \/ AppendRun(r) \/ RotateOldRuns(r) \/ ReturnFinal(r) \/ MakeVideoExcept(r)
    \/ UpdateDone(r) \/ CopyPreview(r) \/ JobExcept(r)

\* one step of a worker thread of the run
Worker(r) ==
    \/ \E s \in Stages : StageFinish(r, s)
    \/ CaptionFinish(r)
    \/ MergeCaptionFinish(r)

Next ==
    \E r \in Runs : run_postbot(r) \/ run_make_video(r) \/ Orchestrate(r) \/ Worker(r)

Spec == Init /\ [][Next]_vars

\* the metadata file outlives the server: at start it holds {"runs": []}
\* (_ensure_file) or the records of earlier runs, written by append_run
StoredHistories == {<< >>, <<-1, 0>>}

HistInit == InitServer /\ history \in StoredHistories /\ inp = NoValue /\ out = NoValue

HistSpec == HistInit /\ [][Next]_vars

\* every coroutine that can step eventually steps; a wait_for always ends (result, error or timeout)
LiveSpec == Spec /\ \A r \in Runs : WF_vars(Orchestrate(r))

(***************************************************************************)
(* Read requests (api.py get_status, download_final).  The handlers are    *)
(* coroutines of the same event loop and contain no await: each runs as    *)
(* one step, while every job task is suspended.                            *)
(***************************************************************************)
\* a job id that POST /run never returned
UnknownId == 0

RequestIds == Runs \cup {UnknownId}

\* pathlib: Path("") is the current directory "."
PathOf(str) == IF str = << >> THEN <<".">> ELSE str

\* Path.exists()
Exists(p) ==
    \/ p = <<".">>
    \/ \E r \in Runs : p = <<"POSTED_ROOT", r>> /\ posted[r]
    \/ \E r \in Runs, f \in FileNames : p = <<"CONTENT_ROOT", r, f>> /\ fs[r][f] # "absent"

\* raise HTTPException(404, detail)
NotFound(op, j, job, detail) == [op |-> op, id |-> j, code |-> 404, detail |-> detail, job |-> job, path |-> << >>]

\* return FileResponse(path)
FileResponse(j, job, p) == [op |-> "download", id |-> j, code |-> 200, detail |-> "", job |-> job, path |-> p]

\* GET /status/{job_id}: the response body is the job record
get_status(j) ==
    /\ \A o \in Runs : ~Busy(o)
    /\ resp' = IF j \notin DOMAIN JOBS
                THEN NotFound("status", j, NoJob, "Job not found")
                ELSE [op |-> "status", id |-> j, code |-> 200, detail |-> "", job |-> JOBS[j], path |-> << >>]
    /\ UNCHANGED <<entry, impl, pc, work, starts, exc, timedOut, lastCompleted, faulted,
                   JOBS, savePreview, fs, mergeRet, final, history, retained, posted,
                   dirs, assigned, tasks, sched, memory, inp, out>>

\* GET /download/{job_id}; resp.job is the record the handler read
download_final(j) ==
    /\ \A o \in Runs : ~Busy(o)
    /\ resp' = IF j \notin DOMAIN JOBS
                THEN NotFound("download", j, NoJob, "Final not available")
                ELSE LET job == JOBS[j]
                         copy == PathOf(DictGet(job, "final_copy", << >>))
                         file == PathOf(IF job.final = "None" THEN << >> ELSE Append(job.workdir, job.final))
                     IN  IF job.status # "done" THEN NotFound("download", j, job, "Final not available")
                         ELSE IF Exists(copy) THEN FileResponse(j, job, copy)
                         ELSE IF Exists(file) THEN FileResponse(j, job, file)
                         ELSE NotFound("download", j, job, "File missing")
    /\ UNCHANGED <<entry, impl, pc, work, starts, exc, timedOut, lastCompleted, faulted,
                   JOBS, savePreview, fs, mergeRet, final, history, retained, posted,
                   dirs, assigned, tasks, sched, memory, inp, out>>

ServeNext ==
    \/ Next
    \/ \E j \in RequestIds : get_status(j) \/ download_final(j)

ServeSpec == Init /\ [][ServeNext]_vars

(***************************************************************************)
(* Job ids.  POST /run takes the first 12 hex digits of a random uuid4 as  *)
(* the job id and stores the new record under it without looking the id up.*)
(* Above, a job's id is its run's index, that is, ids are assumed to differ;*)
(* here the id is drawn from the id space and only the job map is followed.*)
(***************************************************************************)
MaxIds == 3

MaxSubmits == 3

\* the values of uuid.uuid4().hex[:12]
IdSpace == 1..MaxIds

\* background.add_task(_run_job_task, job_id, pdata): the task has not started
QueuedTask == [pc |-> "queued", exc |-> "none"]

\* POST /run with job id `id`; created_at is the number of the submission
submit_run(id) ==
    /\ Len(assigned) < MaxSubmits
    /\ dirs' = dirs \cup {<<"CONTENT_ROOT", id>>}
    /\ JOBS' = SetJob(id, [created_at |-> Len(assigned) + 1, status |-> "queued", progress |-> 0,
                           message |-> "Queued", workdir |-> <<"CONTENT_ROOT", id>>, final |-> "None"])
    /\ assigned' = Append(assigned, id)
    /\ tasks' = Append(tasks, QueuedTask)
    /\ resp' = NoResponse
    /\ UNCHANGED <<entry, impl, pc, work, starts, exc, timedOut, lastCompleted, faulted,
                   savePreview, fs, mergeRet, final, history, retained, posted, sched, memory, inp, out>>

\* _run_job_task(job_id, ...), first two statements
task_start(id) ==
    /\ id \in DOMAIN JOBS
    /\ JOBS[id].status = "queued"
    /\ JOBS' = [JOBS EXCEPT ![id].status = "running", ![id].message = "Starting run"]
    /\ resp' = NoResponse
    /\ UNCHANGED <<entry, impl, pc, work, starts, exc, timedOut, lastCompleted, faulted,
                   savePreview, fs, mergeRet, final, history, retained, posted,
                   dirs, assigned, tasks, sched, memory, inp, out>>

IdNext ==
    \/ \E id \in IdSpace : submit_run(id) \/ task_start(id)
    \/ \E j \in IdSpace \cup {UnknownId} : get_status(j)

IdSpec == Init /\ [][IdNext]_vars

(***************************************************************************)
(* Several jobs.  Each submission has its own background task, which       *)
(* writes JOBS[job_id] under the id its submission was given; the run of   *)
(* make_video is reduced to its outcome (a returned path or an exception). *)
(***************************************************************************)
MaxJobs == 2

Submissions == 1..Len(assigned)

SetTask(k, p, e) == tasks' = [tasks EXCEPT ![k] = [pc |-> p, exc |-> e]]

\* what a task step leaves alone
TaskFrame ==
    /\ resp' = NoResponse
    /\ UNCHANGED <<entry, impl, pc, work, starts, exc, timedOut, lastCompleted, faulted,
                   savePreview, fs, mergeRet, final, history, retained, posted,
                   dirs, assigned, sched, memory, inp, out>>

\* POST /run, at most MaxJobs times
job_submit(id) == Len(assigned) < MaxJobs /\ submit_run(id)

\* _run_job_task of the k-th submission: first two statements
job_start(k) ==
    /\ tasks[k].pc = "queued"
    /\ JOBS' = [JOBS EXCEPT ![assigned[k]].status = "running", ![assigned[k]].message = "Starting run"]
    /\ SetTask(k, "resolve", "none")
    /\ TaskFrame

\* the import of make_video: ImportError, or the message before the call
job_resolve(k) ==
    /\ tasks[k].pc = "resolve"
    /\ \/ SetTask(k, "except", "ImportError") /\ UNCHANGED JOBS
       \/ /\ JOBS' = [JOBS EXCEPT ![assigned[k]].message = "Generating narration & fetching media"]
          /\ SetTask(k, "await", "none")
    /\ TaskFrame

\* await make_video(...) raised, or returned and JOBS[job_id].update({...}) ran;
\* sp is payload["save_preview"]
job_return(k) ==
    /\ tasks[k].pc = "await"
    /\ \/ \E e \in {"TypeError", "TimeoutError"} : SetTask(k, "except", e) /\ UNCHANGED JOBS
       \/ \E f \in FileNames, sp \in BOOLEAN :
            /\ JOBS' = [JOBS EXCEPT ![assigned[k]].status = "done", ![assigned[k]].progress = 100,
                                    ![assigned[k]].final = f]
            /\ SetTask(k, IF sp THEN "copy" ELSE "finished", "none")
    /\ TaskFrame

\* shutil.copyfile(final_path, dst); JOBS[job_id]["final_copy"] = str(dst)
job_copy(k) ==
    /\ tasks[k].pc = "copy"
    /\ \/ /\ JOBS' = [JOBS EXCEPT ![assigned[k]] = DictSet(@, "final_copy", <<"POSTED_ROOT", assigned[k]>>)]
          /\ SetTask(k, "finished", "none")
       \/ SetTask(k, "except", "CopyError") /\ UNCHANGED JOBS
    /\ TaskFrame

\* except Exception: status "failed", message the traceback
job_except(k) ==
    /\ tasks[k].pc = "except"
    /\ JOBS' = [JOBS EXCEPT ![assigned[k]].status = "failed", ![assigned[k]].message = tasks[k].exc]
    /\ SetTask(k, "finished", tasks[k].exc)
    /\ TaskFrame

JobsNext ==
    \/ \E id \in IdSpace : job_submit(id)
    \/ \E k \in Submissions :
         job_start(k) \/ job_resolve(k) \/ job_return(k) \/ job_copy(k) \/ job_except(k)

JobsSpec == Init /\ [][JobsNext]_vars

(***************************************************************************)
(* Functions of the pipeline, evaluated on their own.  Durations are in    *)
(* tenths of a second.                                                     *)
(***************************************************************************)
MaxDuration == 20

MaxFade == 5

Max(a, b) == IF a >= b THEN a ELSE b

\* config.py _DEFAULTS (the themes are left out)
Defaults == [themes |-> [modern |-> "builtin modern"], default_theme |-> "modern",
             keep_runs |-> 20, timeout_seconds |-> 120]

\* {**a, **b}
Merge(a, b) == [k \in DOMAIN a \cup DOMAIN b |-> IF k \in DOMAIN b THEN b[k] ELSE a[k]]

\* config/style.json: unreadable, or a JSON object with some of the keys
ConfigFiles ==
    {[readable |-> FALSE, cfg |-> << >>], [readable |-> TRUE, cfg |-> << >>],
     [readable |-> TRUE, cfg |-> [keep_runs |-> 5]],
     [readable |-> TRUE, cfg |-> [timeout_seconds |-> 60]],
     [readable |-> TRUE, cfg |-> [timeout_seconds |-> 240, keep_runs |-> 5]],
     [readable |-> TRUE, cfg |-> [themes |-> [calm |-> "file calm"]]],
     [readable |-> TRUE, cfg |-> [themes |-> [calm |-> "file calm"], default_theme |-> "calm"]],
     [readable |-> TRUE, cfg |-> [default_theme |-> "neon"]]}

\* load_config(): the file's keys over _DEFAULTS, or _DEFAULTS when loading fails
load_config(file) ==
    IF file.readable
      THEN [Merge(Defaults, file.cfg) EXCEPT
              !.themes = Merge(Defaults.themes, DictGet(file.cfg, "themes", << >>))]
      ELSE Defaults

\* the names a caller asks for; "" stands for None and the empty string, both falsy
ThemeNames == {"", "modern", "calm", "neon"}

\* load_theme(name): the theme, or the KeyError of cfg["themes"][cfg["default_theme"]]
load_theme(file, name) ==
    LET cfg == load_config(file)
        theme_name == IF name # "" THEN name ELSE DictGet(cfg, "default_theme", "modern")
        themes == DictGet(cfg, "themes", << >>)
    IN  IF theme_name \in DOMAIN themes
          THEN [raised |-> "none", theme |-> themes[theme_name]]
          ELSE IF cfg.default_theme \in DOMAIN cfg.themes
                 THEN [raised |-> "none", theme |-> cfg.themes[cfg.default_theme]]
                 ELSE [raised |-> "KeyError", theme |-> "None"]

\* make_video: timeout = cfg.get("timeout_seconds", 240), passed to every wait_for
TimeoutOf(file) == DictGet(load_config(file), "timeout_seconds", 240)

\* main.py STYLE_TARGET_SECONDS
STYLE_TARGET_SECONDS == [ad |-> 10, post |-> 30, story |-> 90]

Styles == {"ad", "post", "story", "reel", "AD", ""}

\* mutant: an unknown style gets the shortest target
TargetSeconds_DefaultAd(style) == DictGet(STYLE_TARGET_SECONDS, style, 10)

\* a_generate_narration: STYLE_TARGET_SECONDS.get(style, 30)
TargetSeconds(style) == DictGet(STYLE_TARGET_SECONDS, style, 30)

\* mutant: the start of the fade-out is not clamped
FadeOutStart_NoClamp(duration, fade_out) == duration - fade_out

\* merge_caption: fade_out_start = max(0, float(duration) - float(fade_out))
FadeOutStart(duration, fade_out) == Max(0, duration - fade_out)

\* merge_caption: the fade filters of the caption input; `known` is `duration is not None`
FadeFilters(known, duration, fade_in, fade_out) ==
    IF known
      THEN <<[t |-> "in", st |-> 0, d |-> fade_in],
             [t |-> "out", st |-> FadeOutStart(duration, fade_out), d |-> fade_out]>>
      ELSE <<[t |-> "in", st |-> 0, d |-> fade_in]>>

\* sample_frames_for_layout: duration = 5.0 when the probe's output does not parse
FallbackDuration == 50

\* the ffprobe run of sample_frames_for_layout: exit status, and whether its stdout parses as a float
ProbeOutcomes == [rc : {0, 1}, parsed : BOOLEAN, value : {MaxDuration}]

\* one frame-extracting ffmpeg run: exit status, and whether the frame file exists afterwards
FrameOutcomes == {[rc |-> 0, exists |-> TRUE], [rc |-> 1, exists |-> FALSE], [rc |-> 1, exists |-> TRUE]}

\* mutant: the probe is run with check=True
sample_frames_for_layout_Check(probe, frames) ==
    [raised |-> probe.rc # 0,
     duration |-> IF probe.parsed THEN probe.value ELSE FallbackDuration,
     frames |-> Cardinality({i \in DOMAIN frames : frames[i].exists})]

\* sample_frames_for_layout: neither subprocess.run has check, no exit status is read;
\* duration falls back to 5.0 when stdout does not parse, a missing frame is skipped
sample_frames_for_layout(probe, frames) ==
    [raised |-> FALSE,
     duration |-> IF probe.parsed THEN probe.value ELSE FallbackDuration,
     frames |-> Cardinality({i \in DOMAIN frames : frames[i].exists})]

\* mix_audio_video: subprocess.run(cmd, check=True)
mix_audio_video(rc) == [raised |-> rc # 0]

\* merge_caption: raises on a non-zero overlay run; the burn-in attempts are inside
\* try/except and their exit status only selects the returned path
merge_caption(o, ass, o1, o2) ==
    [raised |-> MergeRaises(o),
     ret |-> IF MergeRaises(o) THEN "None"
             ELSE IF ass THEN BurnIn("absent", o1, o2).ret ELSE "final.mp4"]

\* a burn-in ffmpeg run: any exit status with any state of its output file
BurnOutcomes == [rc : {0, 1}, out : {"absent", "empty", "nonempty"}]

\* merge_caption after the overlay run: the subtitle burn-in.  `ass` is
\* captions.ass existing next to the output, `raises` an exception inside the
\* try block (caught and logged); the attempts are "subtitles=" then "ass=".
burn_subtitles(ass, raises, o1, o2) ==
    IF ~ass \/ raises
      THEN [ret |-> "final.mp4", sub |-> "absent", attempts |-> 0]
      ELSE LET b == BurnIn("absent", o1, o2)
           IN  [ret |-> b.ret, sub |-> b.sub,
                attempts |-> IF o1.rc = 0 /\ Written("absent", o1) # "absent" THEN 1 ELSE 2]

(***************************************************************************)
(* Retention (scheduler/utils/paths.py).  An entry of the base directory   *)
(* is its kind and its name, a prefix and a suffix; suffixes are short     *)
(* strings over a two-letter alphabet, written as sequences of 1 and 2.    *)
(***************************************************************************)
MaxKeep == 3

Suffixes == {<<1>>, <<2>>, <<1, 1>>, <<1, 2>>, <<2, 1>>, <<2, 2>>}

BaseEntries ==
    [kind : {"dir"}, prefix : {"postbot_"}, suffix : Suffixes]
    \cup {[kind |-> "dir", prefix |-> "cap_frames_", suffix |-> <<1>>],
          [kind |-> "file", prefix |-> "postbot_", suffix |-> <<1, 1, 1>>]}

\* str < str on names with the same prefix
RECURSIVE LexLess(_, _)
LexLess(a, b) ==
    IF a = << >> THEN b # << >>
    ELSE IF b = << >> THEN FALSE
    ELSE IF a[1] # b[1] THEN a[1] < b[1]
    ELSE LexLess(Tail(a), Tail(b))

\* mutant: files named postbot_... are run directories too
list_run_dirs_NoIsDir(content) == {p \in content : p.prefix = "postbot_"}

\* [p for p in base_dir.iterdir() if p.is_dir() and p.name.startswith("postbot_")]
list_run_dirs(content) == {p \in content : p.kind = "dir" /\ p.prefix = "postbot_"}

\* sorted(runs, key=lambda p: p.name)
RECURSIVE SortedByName(_)
SortedByName(runs) ==
    IF runs = {} THEN << >>
    ELSE LET first == CHOOSE p \in runs : \A q \in runs \ {p} : LexLess(p.suffix, q.suffix)
         IN  <<first>> \o SortedByName(runs \ {first})

\* mutant: the slice takes the end of the sorted list
rotate_old_runs_RemoveLast(content, keep) ==
    LET runs == list_run_dirs(content)
        runs_sorted == SortedByName(runs)
        to_remove == SubSeq(runs_sorted, keep + 1, Len(runs_sorted))
    IN  IF Cardinality(runs) <= keep THEN content
        ELSE content \ {to_remove[i] : i \in DOMAIN to_remove}

\* rotate_old_runs(base_dir) with keep_runs = keep, every deletion succeeding:
\* the content of base_dir afterwards
rotate_old_runs(content, keep) ==
    LET runs == list_run_dirs(content)
        runs_sorted == SortedByName(runs)
        to_remove == SubSeq(runs_sorted, 1, Len(runs_sorted) - keep)
    IN  IF Cardinality(runs) <= keep THEN content
        ELSE content \ {to_remove[i] : i \in DOMAIN to_remove}

\* a directory tree: the entries of the temporary directory, and in the content
\* root the working directory of a job (named by 12 hexadecimal digits,
\* api.py:284-286) beside a directory named postbot_1
InTree(parent, e) ==
    [parent |-> parent, kind |-> e.kind, prefix |-> e.prefix, suffix |-> e.suffix]

JobWorkdir == [parent |-> "content", kind |-> "dir", prefix |-> "", suffix |-> <<1>>]

Trees ==
    {{InTree("tmp", e) : e \in c}
        \cup {JobWorkdir, [parent |-> "content", kind |-> "dir", prefix |-> "postbot_", suffix |-> <<1>>]}
     : c \in SUBSET BaseEntries}

\* base_dir.iterdir()
iterdir(tree, base_dir) ==
    {[kind |-> e.kind, prefix |-> e.prefix, suffix |-> e.suffix] : e \in {t \in tree : t.parent = base_dir}}

\* the tree after rotate_old_runs(base_dir) with keep_runs = keep
retention(tree, base_dir, keep) ==
    LET left == rotate_old_runs(iterdir(tree, base_dir), keep)
    IN  {t \in tree :
            t.parent = base_dir
              => [kind |-> t.kind, prefix |-> t.prefix, suffix |-> t.suffix] \in left}

(***************************************************************************)
(* Post times (time_utils.py).  A time "HH:MM" is the number HHMM: the order  *)
(* of the zero-padded strings is the order of the numbers.                   *)
(***************************************************************************)
Platforms == {"youtube", "tiktok", "instagram", "facebook", "mastodon"}

BEST_TIMES(p) ==
    CASE p = "youtube"   -> <<1000, 1300, 1800>>
      [] p = "tiktok"    -> <<900, 1200, 2000>>
      [] p = "instagram" -> <<1100, 1400, 1900>>
      [] p = "facebook"  -> <<800, 1300, 1700>>
      [] OTHER           -> << >>

\* most platforms of a configuration
MaxPlatforms == 2

\* largest frequency_per_day
MaxFrequency == 3

CustomTimes == {<< >>, <<1300>>, <<1300, 1000>>, <<1300, 1300>>}

\* all_times: the best times of the configured platforms, one list after the other
RECURSIVE AllTimes(_)
AllTimes(platforms) ==
    IF platforms = << >> THEN << >>
    ELSE BEST_TIMES(Head(platforms)) \o AllTimes(Tail(platforms))

\* sorted(...) of the elements of list at the positions pos
RECURSIVE SortedAt(_, _)
SortedAt(list, pos) ==
    IF pos = {} THEN << >>
    ELSE LET i == CHOOSE i \in pos : \A j \in pos : list[i] <= list[j]
         IN  <<list[i]>> \o SortedAt(list, pos \ {i})

\* the lists get_next_post_times(config) can return: random.sample draws
\* min(freq, len(all_times)) positions of all_times
get_next_post_times(config) ==
    IF config.mode = "manual" THEN {config.custom_times}
    ELSE LET all_times == AllTimes(config.platforms)
             k == IF config.frequency_per_day < Len(all_times)
                  THEN config.frequency_per_day ELSE Len(all_times)
         IN  {SortedAt(all_times, pos) :
                 pos \in {q \in SUBSET DOMAIN all_times : Cardinality(q) = k}}

(***************************************************************************)
(* Caption placement (captioner_async.py).  A frame is its size and the    *)
(* mean edge score of each of the 9 grid cells, in row-major order.  The   *)
(* float products are truncated by int(): int(w * 0.9) is (w * 9) \div 10  *)
(* for every size used here.                                               *)
(***************************************************************************)
SampleCount == 3

DefaultWidth == 1280

DefaultHeight == 720

MaxCell == 12

\* frame sizes of the footage (all frames of one video have its size)
FrameSizes == {<<1280, 720>>, <<640, 361>>}

\* cell scores of a frame: every cell 2, or one cell lower by 1 or 2
LowCell(a, d) == [k \in 1..9 |-> IF k = a THEN 2 - d ELSE 2]

FrameScores == {LowCell(a, d) : a \in 1..9, d \in 0..2}

NoRegion == [found |-> FALSE]

\* accum_scores[k]: the sum over the frames of the score of cell k
RECURSIVE Accum(_, _)
Accum(frames, k) ==
    IF frames = << >> THEN 0 ELSE frames[1].scores[k] + Accum(Tail(frames), k)

RECURSIVE ArgMinFrom(_, _, _)
ArgMinFrom(v, i, best) ==
    IF i > Len(v) THEN best
    ELSE ArgMinFrom(v, i + 1, IF v[i] < v[best] THEN i ELSE best)

\* mutant: on a tie the last of the lowest cells
ArgMin_Last(v) ==
    (CHOOSE k \in 1..Len(v) : (\A j \in 1..Len(v) : v[k] <= v[j])
                               /\ \A j \in (k + 1)..Len(v) : v[j] > v[k]) - 1

\* int(np.argmin(v)): the 0-based index of the first lowest entry
ArgMin(v) == ArgMinFrom(v, 2, 1) - 1

\* pick_caption_region(frame_paths, grid=(3,3)).  Dividing every sum by the
\* same number of frames does not change which cell is lowest.
pick_caption_region(frames) ==
    IF frames = << >> THEN NoRegion
    ELSE LET last == frames[Len(frames)]
             cell_h == last.h \div 3
             cell_w == last.w \div 3
             idx == ArgMin([k \in 1..9 |-> Accum(frames, k)])
             r == idx \div 3
             c == idx % 3
         IN  [found |-> TRUE, x |-> c * cell_w, y |-> r * cell_h, w |-> cell_w, h |-> cell_h]

\* mutant: the vertical offset is computed from the widths
caption_box_WidthOffset(width, height, region) ==
    IF ~region.found
      THEN LET box_w == (width * 9) \div 10
           IN  [x |-> (width - box_w) \div 2, y |-> (height * 78) \div 100,
                w |-> box_w, h |-> (height * 15) \div 100]
      ELSE LET box_w == (region.w * 9) \div 10
               box_h == (region.h * 6) \div 10
           IN  [x |-> region.x + (region.w - box_w) \div 2,
                y |-> region.y + (region.w - box_w) \div 2,
                w |-> box_w, h |-> box_h]

\* create_caption_image, "choose placement": bottom centre without a region,
\* else the region shrunk and centred in itself
caption_box(width, height, region) ==
    IF ~region.found
      THEN LET box_w == (width * 9) \div 10
           IN  [x |-> (width - box_w) \div 2, y |-> (height * 78) \div 100,
                w |-> box_w, h |-> (height * 15) \div 100]
      ELSE LET box_w == (region.w * 9) \div 10
               box_h == (region.h * 6) \div 10
           IN  [x |-> region.x + (region.w - box_w) \div 2,
                y |-> region.y + (region.h - box_h) \div 2,
                w |-> box_w, h |-> box_h]

\* the frames sampled from footage of size `size`
FramesOf(size, scores) == [i \in DOMAIN scores |-> [w |-> size[1], h |-> size[2], scores |-> scores[i]]]

\* mutant: without frames the footage's own size is used
caption_placement_FootageSize(size, scores) ==
    LET frames == FramesOf(size, scores)
        region == pick_caption_region(frames)
    IN  [region |-> region, box |-> caption_box(size[1], size[2], region)]

\* create_caption_image up to the placement: frames, region, resolution, box
caption_placement(size, scores) ==
    LET frames == FramesOf(size, scores)
        region == pick_caption_region(frames)
        width == IF frames # << >> THEN frames[1].w ELSE DefaultWidth
        height == IF frames # << >> THEN frames[1].h ELSE DefaultHeight
    IN  [region |-> region, box |-> caption_box(width, height, region)]

(***************************************************************************)
(* wrap_text (captioner_async.py).  A string is a sequence of tokens: a    *)
(* word is the positive number that is its width, a space is 0 and a       *)
(* newline is -1.                                                          *)
(***************************************************************************)
MaxWords == 4

MaxWordWidth == 3

MaxLineWidth == 5

SPACE == 0

NEWLINE == 0 - 1

\* sep.join(parts)
RECURSIVE Join(_, _)
Join(parts, sep) ==
    IF parts = << >> THEN << >>
    ELSE IF Len(parts) = 1 THEN parts[1]
    ELSE parts[1] \o <<sep>> \o Join(Tail(parts), sep)

\* " ".join(cur) for a list of words
JoinWords(cur) == Join([i \in DOMAIN cur |-> <<cur[i]>>], SPACE)

\* draw.textlength(str): the widths of the words plus one unit for each space
RECURSIVE textlength(_)
textlength(str) ==
    IF str = << >> THEN 0
    ELSE (IF str[1] = SPACE THEN 1 ELSE str[1]) + textlength(Tail(str))

\* mutant: the word that did not fit is dropped
wrap_word_Drop(st, w, max_width) ==
    LET cur == Append(st.cur, w)
    IN  IF textlength(JoinWords(cur)) > max_width
          THEN [lines |-> Append(st.lines, JoinWords(st.cur)), cur |-> << >>]
          ELSE [lines |-> st.lines, cur |-> cur]

\* one pass of the loop: cur.append(w); on overflow cur.pop(), close the line, cur = [w]
wrap_word(st, w, max_width) ==
    LET cur == Append(st.cur, w)
    IN  IF textlength(JoinWords(cur)) > max_width
          THEN [lines |-> Append(st.lines, JoinWords(st.cur)), cur |-> <<w>>]
          ELSE [lines |-> st.lines, cur |-> cur]

RECURSIVE WrapLoop(_, _, _)
WrapLoop(st, words, max_width) ==
    IF words = << >> THEN st
    ELSE WrapLoop(wrap_word(st, words[1], max_width), Tail(words), max_width)

\* wrap_text(draw, text, font, max_width), words being text.split()
wrap_text(words, max_width) ==
    LET st == WrapLoop([lines |-> << >>, cur |-> << >>], words, max_width)
        lines == IF st.cur # << >> THEN Append(st.lines, JoinWords(st.cur)) ELSE st.lines
    IN  Join(lines, NEWLINE)

Inputs ==
    [fn : {"timeout"}, file : ConfigFiles]
    \cup [fn : {"target"}, style : Styles]
    \cup [fn : {"fade"}, known : BOOLEAN, duration : 0..MaxDuration, fade_in : {5}, fade_out : 0..MaxFade]
    \cup [fn : {"sample"}, probe : ProbeOutcomes, frames : [1..3 -> FrameOutcomes]]
    \cup [fn : {"mix"}, rc : {0, 1}]
    \cup [fn : {"merge"}, o : ToolOutcomes, ass : BOOLEAN, o1 : ToolOutcomes, o2 : ToolOutcomes]
    \cup [fn : {"burn"}, ass : BOOLEAN, raises : BOOLEAN, o1 : BurnOutcomes, o2 : BurnOutcomes]
    \cup [fn : {"rotate"}, content : SUBSET BaseEntries, keep : 0..MaxKeep]
    \cup [fn : {"retain"}, tree : Trees, base_dir : {"tmp", "content"}, keep : 0..MaxKeep]
    \cup [fn : {"times"}, mode : {"automatic", "manual"}, custom_times : CustomTimes,
          platforms : UNION {[1..n -> Platforms] : n \in 0..MaxPlatforms},
          frequency_per_day : 0..MaxFrequency]
    \cup [fn : {"place"}, size : FrameSizes,
          scores : UNION {[1..n -> FrameScores] : n \in 0..SampleCount}]
    \cup [fn : {"box"}, x : {0, 426}, y : {0, 240}, w : 0..MaxCell, h : 0..MaxCell]
    \cup [fn : {"theme"}, file : ConfigFiles, name : ThemeNames]
    \cup [fn : {"wrap"}, words : UNION {[1..n -> 1..MaxWordWidth] : n \in 0..MaxWords},
          max_width : NEWLINE..MaxLineWidth]

EvalInit ==
    /\ InitProgram
    /\ inp \in Inputs
    /\ out = NoValue

\* the frame shared by the evaluations
Evaluated(fn) ==
    /\ inp.fn = fn
    /\ out = NoValue
    /\ UNCHANGED <<entry, impl, pc, work, starts, exc, timedOut, lastCompleted, faulted,
                   JOBS, savePreview, fs, mergeRet, final, history, retained, posted,
                   dirs, resp, assigned, tasks, sched, memory, inp>>

EvalTimeout ==
    /\ Evaluated("timeout")
    /\ out' = [fn |-> "timeout", value |-> TimeoutOf(inp.file)]

EvalTargetSeconds ==
    /\ Evaluated("target")
    /\ out' = [fn |-> "target", value |-> TargetSeconds(inp.style)]

EvalFadeFilters ==
    /\ Evaluated("fade")
    /\ out' = [fn |-> "fade", filters |-> FadeFilters(inp.known, inp.duration, inp.fade_in, inp.fade_out)]

EvalSampleFrames ==
    /\ Evaluated("sample")
    /\ out' = [fn |-> "sample", result |-> sample_frames_for_layout(inp.probe, inp.frames)]

EvalMix ==
    /\ Evaluated("mix")
    /\ out' = [fn |-> "mix", result |-> mix_audio_video(inp.rc)]

EvalMerge ==
    /\ Evaluated("merge")
    /\ out' = [fn |-> "merge", result |-> merge_caption(inp.o, inp.ass, inp.o1, inp.o2)]

EvalBurn ==
    /\ Evaluated("burn")
    /\ out' = [fn |-> "burn", result |-> burn_subtitles(inp.ass, inp.raises, inp.o1, inp.o2)]

EvalRotate ==
    /\ Evaluated("rotate")
    /\ out' = [fn |-> "rotate", remaining |-> rotate_old_runs(inp.content, inp.keep)]

EvalRetain ==
    /\ Evaluated("retain")
    /\ out' = [fn |-> "retain", tree |-> retention(inp.tree, inp.base_dir, inp.keep)]

EvalTimes ==
    /\ Evaluated("times")
    /\ \E times \in get_next_post_times(inp) : out' = [fn |-> "times", times |-> times]

EvalPlace ==
    /\ Evaluated("place")
    /\ out' = [fn |-> "place", result |-> caption_placement(inp.size, inp.scores)]

EvalBox ==
    /\ Evaluated("box")
    /\ out' = [fn |-> "box",
               box |-> caption_box(DefaultWidth, DefaultHeight,
                                   [found |-> TRUE, x |-> inp.x, y |-> inp.y, w |-> inp.w, h |-> inp.h])]

EvalWrap ==
    /\ Evaluated("wrap")
    /\ out' = [fn |-> "wrap", text |-> wrap_text(inp.words, inp.max_width)]

EvalTheme ==
    /\ Evaluated("theme")
    /\ out' = [fn |-> "theme", result |-> load_theme(inp.file, inp.name)]

EvalNext ==
    \/ EvalTimeout \/ EvalTargetSeconds \/ EvalFadeFilters
    \/ EvalSampleFrames \/ EvalMix \/ EvalMerge \/ EvalBurn
    \/ EvalRotate \/ EvalPlace \/ EvalBox \/ EvalWrap
    \/ EvalTheme \/ EvalRetain \/ EvalTimes

EvalSpec == EvalInit /\ [][EvalNext]_vars

(***************************************************************************)
(* The scheduler: run_scheduler's loop in its own thread, state.json, and the *)
(* two requests of api.py that start and stop it.  The loop and the handlers  *)
(* run in different threads; a step is one access to state.json together with *)
(* the local statements around it.                                            *)
(***************************************************************************)
\* the loop's thread is running run_scheduler
LoopAlive == sched.pc \in {"load", "save", "check", "post", "reload"}

\* whether the name scheduler_thread is bound where the handlers read it: they
\* declare it global, and the module never binds that global (api.py:196 binds
\* a local of create_app)
SchedulerThreadBound_Closure == TRUE

SchedulerThreadBound == FALSE

SchedResponse(op, code, detail) ==
    [op |-> op, id |-> 0, code |-> code, detail |-> detail, job |-> NoJob, path |-> << >>]

SchedFrame ==
    UNCHANGED <<entry, impl, pc, work, starts, exc, timedOut, lastCompleted, faulted, JOBS,
                savePreview, fs, mergeRet, final, history, retained, posted, dirs,
                assigned, tasks, memory, inp, out>>

\* the minutes of the clock, a day shortened to DayMinutes minutes
DayMinutes == 3

Minutes == 0..(DayMinutes - 1)

\* most post times of a configuration
MaxTimes == 2

\* the lists get_next_post_times can hand to the loop
PostTimes ==
    {t \in UNION {[1..n -> Minutes] : n \in 0..MaxTimes} :
        \A i \in 1..(Len(t) - 1) : t[i] <= t[i + 1]}

\* asyncio.run(run_scheduler(config)): the coroutine is entered
run_scheduler ==
    /\ sched.pc = "idle"
    /\ \E t \in PostTimes, m \in Minutes :
          sched' = [sched EXCEPT !.pc = "load", !.post_times = t, !.now = m]
    /\ resp' = NoResponse
    /\ SchedFrame

\* state = load_state(): a missing file is created with active False, then read
LoopLoad ==
    /\ sched.pc = "load"
    /\ sched' = [sched EXCEPT !.pc = "save",
                              !.file = IF sched.file.exists THEN @
                                       ELSE [exists |-> TRUE, active |-> FALSE]]
    /\ resp' = NoResponse
    /\ SchedFrame

\* state["active"] = True; state["next_times"] = ...; save_state(state): the
\* whole in-memory state is written
LoopSave ==
    /\ sched.pc = "save"
    /\ sched' = [sched EXCEPT !.pc = "check", !.active = TRUE,
                              !.file = [exists |-> TRUE, active |-> TRUE]]
    /\ resp' = NoResponse
    /\ SchedFrame

\* while state["active"]: the first post time equal to the clock's minute
\* starts a post cycle
LoopCheck ==
    /\ sched.pc = "check"
    /\ sched' = [sched EXCEPT !.pc =
                    IF ~sched.active THEN "stopped"
                    ELSE IF \E i \in DOMAIN sched.post_times : sched.post_times[i] = sched.now
                         THEN "post" ELSE "reload"]
    /\ resp' = NoResponse
    /\ SchedFrame

\* await run_post_cycle(config): the name is defined nowhere, the NameError
\* ends the coroutine and its thread
LoopPost ==
    /\ sched.pc = "post"
    /\ sched' = [sched EXCEPT !.pc = "crashed"]
    /\ resp' = NoResponse
    /\ SchedFrame

\* await asyncio.sleep(60); state = load_state(): at least a minute passes
LoopReload ==
    /\ sched.pc = "reload"
    /\ \E d \in 1..2 :
       sched' = [sched EXCEPT !.pc = "check",
                              !.now = (@ + d) % DayMinutes,
                              !.active = IF sched.file.exists THEN sched.file.active ELSE FALSE,
                              !.file = IF sched.file.exists THEN @
                                       ELSE [exists |-> TRUE, active |-> FALSE]]
    /\ resp' = NoResponse
    /\ SchedFrame

Loop == LoopLoad \/ LoopSave \/ LoopCheck \/ LoopPost \/ LoopReload

\* POST /scheduler/start
start_scheduler ==
    /\ \E available \in BOOLEAN, configured \in BOOLEAN :
          IF ~available
          THEN /\ resp' = SchedResponse("start", 200, "Scheduler unavailable (missing optional dependencies).")
               /\ UNCHANGED sched
          ELSE IF ~configured
          THEN /\ resp' = SchedResponse("start", 200, "Schedule config not found.")
               /\ UNCHANGED sched
          ELSE IF ~SchedulerThreadBound
          THEN /\ resp' = SchedResponse("start", 500, "NameError")
               /\ UNCHANGED sched
          ELSE IF sched.thread = "loop" /\ LoopAlive
          THEN /\ resp' = SchedResponse("start", 200, "Scheduler already active.")
               /\ UNCHANGED sched
          ELSE /\ resp' = SchedResponse("start", 200, "Scheduler started successfully.")
               /\ sched' = [sched EXCEPT !.thread = "loop",
                                         !.second = @ \/ LoopAlive,
                                         !.pc = IF LoopAlive THEN @ ELSE "load",
                                         !.file = [exists |-> TRUE, active |-> TRUE]]
    /\ SchedFrame

\* POST /scheduler/stop
stop_scheduler ==
    /\ IF ~SchedulerThreadBound
       THEN /\ resp' = SchedResponse("stop", 500, "NameError")
            /\ UNCHANGED sched
       ELSE IF sched.thread = "loop" /\ LoopAlive
       THEN /\ resp' = SchedResponse("stop", 200, "")
            /\ sched' = [sched EXCEPT !.thread = "None",
                                      !.file = [exists |-> TRUE, active |-> FALSE]]
       ELSE /\ resp' = SchedResponse("stop", 200, "")
            /\ UNCHANGED sched
    /\ SchedFrame

\* GET /scheduler/status: read_state(), a missing file reads as inactive
scheduler_status ==
    /\ resp' = SchedResponse("status", 200,
                             IF sched.file.exists /\ sched.file.active THEN "active" ELSE "inactive")
    /\ UNCHANGED sched
    /\ SchedFrame

SchedNext ==
    \/ run_scheduler
    \/ LoopLoad
    \/ LoopSave
    \/ LoopCheck
    \/ LoopPost
    \/ LoopReload
    \/ start_scheduler
    \/ stop_scheduler
    \/ scheduler_status

SchedSpec == Init /\ [][SchedNext]_vars

\* the loop's thread is scheduled
SchedLive == SchedSpec /\ WF_vars(Loop)

(***************************************************************************)
(* The voice memory (memory.py): voice_memory.json holds one dict; callers   *)
(* run in threads.  A step is one access to the file.  open(MEM_FILE, "w")   *)
(* empties the file and the text reaches it when the file is closed; in      *)
(* between the file is not valid JSON.                                       *)
(***************************************************************************)
Topics == {"News", "news", "tech"}

\* topic.lower()
lower(topic) == IF topic = "News" THEN "news" ELSE topic

\* _DEFAULT.copy()
DefaultVoice == 0 - 1

MemFrame ==
    UNCHANGED <<entry, impl, pc, work, starts, exc, timedOut, lastCompleted, faulted, JOBS,
                savePreview, fs, mergeRet, final, history, retained, posted, dirs, resp,
                assigned, tasks, sched, inp, out>>

\* _ensure_file(): a missing file is created holding {}
ensure_file(m) ==
    IF m.exists THEN m
    ELSE [m EXCEPT !.exists = TRUE, !.written = TRUE, !.entries = EmptyMemory]

\* load_memory() on the file of m: {} when json.load raises
load_memory(m) == IF m.written THEN m.entries ELSE EmptyMemory

\* a thread calls set_voice_tone(topic, voice, tone) or get_voice_tone(topic)
MemCall(c) ==
    /\ memory.callers[c].pc = "idle"
    /\ \E op \in {"set", "get"}, topic \in Topics :
          memory' = [memory EXCEPT !.callers[c] =
                        [IdleCaller EXCEPT !.pc = "load", !.op = op, !.topic = topic]]
    /\ MemFrame

\* set_voice_tone: data = load_memory(); data[topic.lower()] = {...}
MemLoad(c) ==
    /\ memory.callers[c].pc = "load"
    /\ memory.callers[c].op = "set"
    /\ LET m == ensure_file(memory)
       IN  memory' = [m EXCEPT !.callers[c].pc = "save",
                               !.callers[c].data =
                                   [load_memory(m) EXCEPT ![lower(m.callers[c].topic)] = c]]
    /\ MemFrame

\* save_memory(data): _ensure_file(); with _LOCK: open(MEM_FILE, "w")
MemOpen(c) ==
    /\ memory.callers[c].pc = "save"
    /\ memory.lock = 0
    /\ memory' = [ensure_file(memory) EXCEPT !.callers[c].pc = "dump", !.lock = c,
                                             !.written = FALSE]
    /\ MemFrame

\* json.dump(data, fh, indent=2), the file is closed and the lock released
MemDump(c) ==
    /\ memory.callers[c].pc = "dump"
    /\ memory' = [memory EXCEPT !.callers[c].pc = "done", !.lock = 0,
                                !.written = TRUE, !.entries = memory.callers[c].data]
    /\ MemFrame

\* get_voice_tone: data = load_memory(); return data.get(topic.lower(), _DEFAULT.copy())
MemGet(c) ==
    /\ memory.callers[c].pc = "load"
    /\ memory.callers[c].op = "get"
    /\ LET m == ensure_file(memory)
           found == load_memory(m)[lower(m.callers[c].topic)]
       IN  memory' = [m EXCEPT !.callers[c].pc = "done",
                               !.callers[c].data = load_memory(m),
                               !.callers[c].ret = IF found = NoEntry THEN DefaultVoice ELSE found]
    /\ MemFrame

MemNext ==
    \E c \in Callers : MemCall(c) \/ MemLoad(c) \/ MemOpen(c) \/ MemDump(c) \/ MemGet(c)

MemSpec == Init /\ [][MemNext]_vars

(***************************************************************************)
(* Properties                                                              *)
(***************************************************************************)
Jobs == DOMAIN JOBS

StageOrder(s) ==
    CASE s = "narration" -> 1
      [] s = "footage"   -> 2
      [] s = "synthesis" -> 3
      [] s = "caption"   -> 4
      [] s = "mux"       -> 5
      [] s = "overlay"   -> 6

\* the stages make_video has launched by the time it waits for stage s
LaunchedBy(s) ==
    CASE s = "narration" -> {"narration", "footage"}
      [] s = "footage"   -> {"narration", "footage", "synthesis"}
      [] s = "synthesis" -> {"narration", "footage", "synthesis"}
      [] s = "caption"   -> {"narration", "footage", "synthesis", "caption"}
      [] s = "mux"       -> {"narration", "footage", "synthesis", "caption", "mux"}
      [] s = "overlay"   -> Stages

HistoryCount(r) == Cardinality({i \in DOMAIN history : history[i] = r})

AllowedStatusSteps == {<<"queued", "running">>, <<"running", "done">>, <<"running", "failed">>}

\* C1 (as claimed): the status field of a job only ever steps queued->running,
\* running->done or running->failed; done and failed are final.
C1_StatusTransitions ==
    [][\A r \in Jobs : JOBS'[r].status # JOBS[r].status
                          => <<JOBS[r].status, JOBS'[r].status>> \in AllowedStatusSteps]_vars

NoFootage == StageError("footage")

\* C3 (as claimed): whenever the footage provider returned no results, the finished job
\* is failed with the no-footage message, has no final path, and caption placement,
\* mux and overlay were never started.
C3_Original ==
    \A r \in Jobs : (work[r]["footage"] = NoFootage /\ pc[r] = "finished")
                       => /\ JOBS[r].status = "failed"
                          /\ JOBS[r].message = NoFootage
                          /\ JOBS[r].final = "None"
                          /\ \A s \in {"caption", "mux", "overlay"} : starts[r][s] = 0

\* C3 (amended): when the footage provider returned no results the job never gets a
\* final path, never becomes done, caption placement, mux and overlay are never started,
\* and the finished job is failed; its message is the no-footage error when narration
\* completed and the wait for footage did not time out, and otherwise the narration
\* error or the timeout.
C3_NoFootage ==
    \A r \in Jobs : work[r]["footage"] = NoFootage
                       => /\ JOBS[r].final = "None"
                          /\ JOBS[r].status # "done"
                          /\ \A s \in {"caption", "mux", "overlay"} : starts[r][s] = 0
                          /\ pc[r] = "finished"
                               => /\ JOBS[r].status = "failed"
                                  /\ IF lastCompleted[r] = "narration" /\ timedOut[r] = "none"
                                       THEN JOBS[r].message = NoFootage
                                       ELSE JOBS[r].message \in {StageError("narration"), "TimeoutError"}

C3_Witness ==
    \E r \in Jobs : /\ work[r]["footage"] = NoFootage
                    /\ JOBS[r].status = "failed"
                    /\ JOBS[r].message = NoFootage
                    /\ work[r]["synthesis"] = "running"

\* C4 (as claimed): once a wait has timed out and the job is failed, no stage later in
\* the pipeline than the timed-out one is executing.
C4_Original ==
    \A r \in Jobs : (timedOut[r] # "none" /\ JOBS[r].status = "failed")
                       => /\ JOBS[r].message = "TimeoutError"
                          /\ \A s \in Stages : StageOrder(s) > StageOrder(timedOut[r])
                                                  => work[r][s] # "running"

\* C4 (amended): when a wait times out the job ends failed with the timeout as its
\* message, and no stage that had not been launched before that wait is ever started;
\* stages launched before it may still be running.
C4_Timeout ==
    \A r \in Runs : timedOut[r] # "none"
                       => /\ \A s \in Stages \ LaunchedBy(timedOut[r]) :
                                starts[r][s] = 0 /\ work[r][s] = "idle"
                          /\ exc[r] = "TimeoutError"
                          /\ (r \in Jobs /\ pc[r] = "finished")
                               => JOBS[r].status = "failed" /\ JOBS[r].message = "TimeoutError"

C4_Witness ==
    \E r \in Jobs : /\ timedOut[r] = "narration"
                    /\ JOBS[r].status = "failed"
                    /\ JOBS[r].message = "TimeoutError"
                    /\ work[r]["footage"] = "running"

\* C5: every job submitted through POST /run eventually has status done or failed.
C5_JobTerminates ==
    \A r \in Runs : (entry[r] = "api") ~> (r \in Jobs /\ JOBS[r].status \in {"done", "failed"})

C5_Witness ==
    \E r \in Jobs : /\ pc[r] = "finished"
                    /\ JOBS[r].status \in {"done", "failed"}
                    /\ timedOut[r] = "overlay"

\* C6 (as claimed): a job whose make_video was resolved and whose collaborators all
\* succeeded in time ends done with progress 100, exactly one history record and
\* retention triggered.
C6_Original ==
    \A r \in Jobs : (impl[r] \in {MAIN, FALLBACK} /\ pc[r] = "finished" /\ ~faulted[r])
                       => /\ JOBS[r].status = "done"
                          /\ JOBS[r].progress = 100
                          /\ HistoryCount(r) = 1
                          /\ retained[r]

\* C7 (as claimed): once a stage has completed, the running job's message is no longer
\* one of the texts written before any stage ran (it names the completed stage).
C7_Original ==
    \A r \in Jobs : (JOBS[r].status = "running" /\ lastCompleted[r] # "none")
                       => JOBS[r].message \notin PreStageMessages

AwaitPcs == {"await_narration", "await_footage", "await_synthesis", "await_caption", "await_mux", "await_overlay"}

\* C8: narration and footage fetch are both launched before anything is awaited;
\* synthesis is launched only after narration returned, and before footage is awaited.
C8_LaunchOrder ==
    \A r \in Runs :
        /\ pc[r] \in AwaitPcs => starts[r]["narration"] = 1 /\ starts[r]["footage"] = 1
        /\ starts[r]["synthesis"] > 0 => work[r]["narration"] = "ok" /\ lastCompleted[r] # "none"
        /\ pc[r] = "await_footage" => starts[r]["synthesis"] = 1

C8_Witness ==
    \E r \in Runs : /\ pc[r] = "await_footage"
                    /\ work[r]["footage"] = "running"
                    /\ work[r]["synthesis"] = "running"

InFlight(r) ==
    {s \in {"caption", "mux", "overlay"} : work[r][s] = "running"}
        \cup (IF pc[r] \in {"append_run", "rotate"} THEN {"housekeeping"} ELSE {})

\* C9: caption placement starts after footage and synthesis completed, mux after caption
\* placement, overlay after mux, history append and retention after overlay; at most one
\* of these four steps is in flight.
C9_Sequential ==
    \A r \in Runs :
        /\ starts[r]["caption"] > 0 => work[r]["footage"] = "ok" /\ work[r]["synthesis"] = "ok"
        /\ starts[r]["mux"] > 0 => work[r]["caption"] = "ok"
        /\ starts[r]["overlay"] > 0 => work[r]["mux"] = "ok"
        /\ (pc[r] \in {"append_run", "rotate"} \/ HistoryCount(r) > 0 \/ retained[r])
              => work[r]["overlay"] = "ok"
        /\ Cardinality(InFlight(r)) <= 1

C9_Witness ==
    \E r \in Runs : HistoryCount(r) = 1 /\ retained[r] /\ work[r]["overlay"] = "ok"

\* C10 (as claimed): when no wait timed out, every error raised by a stage of a finished
\* job is the job's message.
C10_Original ==
    \A r \in Jobs : (pc[r] = "finished" /\ timedOut[r] = "none")
                       => \A s \in Stages : work[r][s] \in Errors => JOBS[r].message = work[r][s]

AbortPcs == {"mv_except", "except", "except_message", "finished"}

\* C10 (amended): every stage is launched at most once; once a wait has raised, the run
\* is aborted and launches nothing more; the finished job is failed with exactly that
\* error as its message; a job that is done, or a run that has a final artifact, had all
\* six stages succeed.
C10_AbortNoRetry ==
    /\ [](\A r \in Runs :
            /\ \A s \in Stages : starts[r][s] <= 1
            /\ exc[r] # "none" => pc[r] \in AbortPcs
            /\ (r \in Jobs /\ exc[r] # "none" /\ pc[r] = "finished")
                  => JOBS[r].status = "failed" /\ JOBS[r].message = exc[r]
            /\ ((r \in Jobs /\ JOBS[r].status = "done") \/ final[r] # "None")
                  => \A s \in Stages : work[r][s] = "ok")
    /\ [][\A r \in Runs : exc[r] # "none" => starts'[r] = starts[r] /\ exc'[r] = exc[r]]_vars

C10_Witness ==
    \E r \in Jobs : /\ pc[r] = "finished"
                    /\ JOBS[r].status = "failed"
                    /\ JOBS[r].message = StageError("narration")
                    /\ work[r]["footage"] = NoFootage

\* the ids returned so far
Assigned == {assigned[i] : i \in DOMAIN assigned}

\* C11: the ids returned by N submissions are N distinct ids; a submission never stores
\* its record under an id that is already a key of the job map, so no record is
\* overwritten; a status request for an id that was never assigned is answered
\* not-found.
C11_Original ==
    /\ [](/\ Cardinality(Assigned) = Len(assigned)
          /\ (resp.op = "status" /\ resp.id \notin Assigned) => resp.code = 404)
    /\ [][\A j \in DOMAIN JOBS : JOBS'[j].created_at = JOBS[j].created_at]_vars

\* C12: a status or download request that interleaves with a running job never reads a
\* record that is done with a null final path or progress below 100, nor one that is
\* failed while its message is still a progress message.
C12_ConsistentReads ==
    resp.op \in {"status", "download"} /\ resp.job.status # "none" =>
        /\ resp.job.status = "done" => resp.job.final # "None" /\ resp.job.progress = 100
        /\ resp.job.status = "failed" => resp.job.message \notin PreStageMessages

\* a status request answered with the record of a failed job
C12_Witness ==
    resp.op = "status" /\ resp.code = 200 /\ resp.job.status = "failed"

\* the preview copy recorded for the job, when the record names one and the file exists
PreviewOf(job) == IF "final_copy" \in DOMAIN job /\ Exists(job.final_copy) THEN job.final_copy ELSE << >>

\* C13: a download is not-found for an unknown id and for a job that is not done; for a
\* done job it returns the preview copy when one exists and otherwise the file at the
\* job's final path.
C13_Original ==
    resp.op = "download" =>
        IF resp.job.status # "done" THEN resp.code = 404
        ELSE IF PreviewOf(resp.job) # << >> THEN resp.code = 200 /\ resp.path = PreviewOf(resp.job)
        ELSE resp.code = 200 /\ resp.path = Append(resp.job.workdir, resp.job.final)

\* C14: the workdir of a job is the one assigned when the job was created, its directory
\* exists from the creation on (so before the run starts), and no step changes the
\* workdir field afterwards.
C14_WorkdirFixed ==
    /\ [](\A r \in Jobs : JOBS[r].workdir = <<"CONTENT_ROOT", r>> /\ JOBS[r].workdir \in dirs)
    /\ [][\A r \in Jobs : r \in DOMAIN JOBS' /\ JOBS'[r].workdir = JOBS[r].workdir]_vars

\* a job whose task ran to its end, with its workdir as created
C14_Witness ==
    \E r \in Jobs : pc[r] = "finished" /\ JOBS[r].workdir = <<"CONTENT_ROOT", r>> /\ JOBS[r].workdir \in dirs

\* path p lies under directory d
Under(p, d) == Len(p) > Len(d) /\ SubSeq(p, 1, Len(d)) = d

\* C15: every file written by a stage of a run (footage, narration audio, sampled frames,
\* caption image and metadata, mux output, final and subtitle-burned video) lies under
\* the workdir of that run, so two runs never write the same path.
C15_Original ==
    \A r \in Runs : \A s \in Stages :
        (entry[r] # "none" /\ work[r][s] # "idle") =>
            /\ \A p \in StagePaths(r, s) : Under(p, WorkdirOf(r))
            /\ \A o \in Runs \ {r} : \A t \in Stages :
                  (entry[o] # "none" /\ work[o][t] # "idle") => StagePaths(r, s) \cap StagePaths(o, t) = {}

\* C16: the message of a failed job holds the full detail of the failure, which for a
\* non-zero exit of the media tool includes the tool's stderr; no failure leaves the
\* previous progress message in place.
C16_Original ==
    \A r \in Jobs :
        (JOBS[r].status = "failed" /\ pc[r] = "finished") =>
            /\ JOBS[r].message = exc[r]
            /\ JOBS[r].message \notin PreStageMessages
            /\ JOBS[r].message \in ToolExitErrors => "stderr" \in ExceptionText(JOBS[r].message)

\* C17: with no timeout in the configuration (no file, or a file without the key) the
\* timeout that make_video passes to each wait_for is 240 seconds.
C17_Original ==
    (out.fn = "timeout" /\ "timeout_seconds" \notin DOMAIN inp.file.cfg) => out.value = 240

\* C18: the target narration duration is 10 seconds for style "ad", 30 for "post", 90 for
\* "story" and 30 for every other style.
C18_TargetSeconds ==
    out.fn = "target" =>
        out.value = (CASE inp.style = "ad"    -> 10
                       [] inp.style = "post"  -> 30
                       [] inp.style = "story" -> 90
                       [] OTHER               -> 30)

\* an unrecognised style was given its target
C18_Witness ==
    out.fn = "target" /\ inp.style = "reel" /\ out.value = 30

\* the fade filters of type t in merge_caption's filter graph
FadesOf(t) == {i \in DOMAIN out.filters : out.filters[i].t = t}

\* C19: for a known duration d and fade-out f the fade-out starts at max(0, d - f), which
\* is 1.5 s for d = 2.0 s and f = 0.5 s; for an unknown duration the filter has the
\* fade-in and no fade-out.
C19_FadeOutStart ==
    out.fn = "fade" =>
        /\ Cardinality(FadesOf("in")) = 1
        /\ inp.known =>
              /\ Cardinality(FadesOf("out")) = 1
              /\ \A i \in FadesOf("out") :
                    /\ out.filters[i].st >= 0
                    /\ out.filters[i].st = (IF inp.duration > inp.fade_out
                                              THEN inp.duration - inp.fade_out ELSE 0)
                    /\ (inp.duration = 20 /\ inp.fade_out = 5) => out.filters[i].st = 15
        /\ ~inp.known => FadesOf("out") = {}

\* a duration shorter than the fade-out: the start is clamped to 0
C19_Witness ==
    out.fn = "fade" /\ inp.known /\ inp.duration < inp.fade_out
    /\ \E i \in FadesOf("out") : out.filters[i].st = 0

\* the tool runs of the evaluated call that exited non-zero, the burn-in attempts aside
NonZeroExit ==
    CASE inp.fn = "sample" -> inp.probe.rc # 0 \/ \E i \in DOMAIN inp.frames : inp.frames[i].rc # 0
      [] inp.fn = "mix"    -> inp.rc # 0
      [] inp.fn = "merge"  -> inp.o.rc # 0
      [] OTHER             -> FALSE

\* C20: every non-zero exit of the media tool fails the run, the optional subtitle burn-in
\* aside: the duration probe and the frame extraction of caption placement as well as
\* mux and overlay.
C20_Original ==
    (out.fn \in {"sample", "mix", "merge"} /\ NonZeroExit) => out.result.raised

\* C20 (amended): a non-zero exit of the mux run or of the overlay run raises and so fails
\* the run; the exit status of the duration probe, of the frame extraction and of the
\* burn-in attempts is not read: frame sampling never raises, it falls back to 5.0 s
\* when the probe printed no duration and skips the frames that were not written.
C20_FatalExits ==
    /\ out.fn = "mix" => (out.result.raised <=> inp.rc # 0)
    /\ out.fn = "merge" => (out.result.raised <=> inp.o.rc # 0)
    /\ out.fn = "sample" =>
          /\ ~out.result.raised
          /\ ~inp.probe.parsed => out.result.duration = FallbackDuration
          /\ out.result.frames <= 3
          /\ (\A i \in DOMAIN inp.frames : ~inp.frames[i].exists) => out.result.frames = 0

\* frame sampling returned although the probe and every frame extraction exited non-zero
C20_Witness ==
    /\ out.fn = "sample" /\ ~out.result.raised
    /\ inp.probe.rc # 0 /\ \A i \in DOMAIN inp.frames : inp.frames[i].rc # 0 /\ ~inp.frames[i].exists

\* a burn-in run that exited zero and produced a non-empty file
GoodBurn(o) == o.rc = 0 /\ o.out = "nonempty"

\* C21: with a subtitle track the burn-in variants are tried in their fixed order and the
\* result is the output of the first variant that exits zero and produces a non-empty
\* file; if every variant fails, or the burn-in step raises, the un-subtitled composed
\* file is returned; without a subtitle track no burn-in is attempted.
C21_Original ==
    out.fn = "burn" =>
        /\ ~inp.ass => out.result.attempts = 0 /\ out.result.ret = "final.mp4"
        /\ (inp.ass /\ inp.raises) => out.result.ret = "final.mp4"
        /\ (inp.ass /\ ~inp.raises) =>
              /\ out.result.ret = (IF GoodBurn(inp.o1) \/ GoodBurn(inp.o2)
                                     THEN "final_subbed.mp4" ELSE "final.mp4")
              /\ out.result.ret = "final_subbed.mp4" => out.result.sub = "nonempty"
              /\ out.result.attempts = (IF GoodBurn(inp.o1) THEN 1 ELSE 2)

\* C22: when a stage times out the orchestrator stops waiting and the job is reported
\* failed, without terminating the work of the timed-out stage: the timeout step changes
\* no stage's work and no file, work that is running stays able to finish (also after the
\* job failed) and to write its files, and no file already produced is removed.
C22_TimeoutLeavesWork ==
    /\ [](\A r \in Runs :
            /\ (timedOut[r] # "none" /\ work[r][timedOut[r]] = "running") => ENABLED Worker(r)
            /\ (entry[r] = "api" /\ timedOut[r] # "none" /\ pc[r] = "finished")
                  => JOBS[r].status = "failed")
    /\ [][\A r \in Runs :
            /\ timedOut'[r] # timedOut[r] =>
                  /\ work[r][timedOut'[r]] = "running"
                  /\ work' = work /\ fs' = fs /\ posted' = posted
                  /\ pc'[r] = "mv_except"
            /\ \A s \in Stages :
                  work[r][s] = "running" => work'[r][s] \in {"running", "ok"} \cup Errors
            /\ \A f \in FileNames : fs[r][f] # "absent" => fs'[r][f] # "absent"]_vars

\* the overlay stage timed out, the job was reported failed, and the stage's thread then
\* finished and wrote the final video
C22_Witness ==
    \E r \in Runs :
        /\ entry[r] = "api" /\ pc[r] = "finished" /\ JOBS[r].status = "failed"
        /\ timedOut[r] = "overlay"
        /\ work[r]["overlay"] = "ok"
        /\ fs[r]["final.mp4"] = "nonempty"

\* the submission whose step this is: the new one, or the one whose task moved
Stepper(k) ==
    \/ Len(assigned') > Len(assigned) /\ k = Len(assigned')
    \/ k \in Submissions /\ tasks'[k] # tasks[k]

\* C23: a step of the run of one job (its submission or a step of its task) leaves the
\* record of every other job unchanged in every field.
C23_Original ==
    [][\A k \in 1..Len(assigned') : Stepper(k) =>
          \A m \in Submissions \ {k} :
             /\ assigned[m] \in DOMAIN JOBS'
             /\ JOBS'[assigned[m]] = JOBS[assigned[m]]]_vars

\* C24: a job's record holds a preview copy path only if the run was submitted with
\* save_preview true and make_video returned; the job is then done and the copy exists.
\* With save_preview false, and on a job that is not done, there is no such path.
C24_PreviewOnlyWhenAsked ==
    \A r \in Jobs :
        "final_copy" \in DOMAIN JOBS[r] =>
            /\ savePreview[r]
            /\ JOBS[r].status = "done"
            /\ final[r] # "None" /\ JOBS[r].final = final[r]
            /\ JOBS[r].final_copy = <<"POSTED_ROOT", r>> /\ posted[r]

\* a done job that recorded its preview copy
C24_Witness ==
    \E r \in Jobs :
        /\ "final_copy" \in DOMAIN JOBS[r]
        /\ savePreview[r] /\ JOBS[r].status = "done" /\ pc[r] = "finished"

\* make_video returned its final path
Completed(r) == retained[r] /\ pc[r] \notin {"rotate", "return"}

\* records of the store written by the runs of this server
OwnRecords == {i \in DOMAIN history : history[i] \in Runs}

Min(a, b) == IF a <= b THEN a ELSE b

\* C26: after retention with keep-count K, every deletion succeeding, at most K run
\* directories remain (all of them when there were K or fewer, and then nothing at all is
\* deleted), and those that remain are the last ones in the lexical order of their names.
C26_KeepsLastK ==
    out.fn = "rotate" =>
        LET runs == list_run_dirs(inp.content)
            left == list_run_dirs(out.remaining)
        IN  /\ left \subseteq runs
            /\ Cardinality(left) = Min(Cardinality(runs), inp.keep)
            /\ \A p \in left, q \in runs \ left : LexLess(q.suffix, p.suffix)
            /\ Cardinality(runs) <= inp.keep => out.remaining = inp.content

\* more run directories than the keep-count, names of different lengths among them:
\* some were deleted and some kept
C26_Witness ==
    /\ out.fn = "rotate"
    /\ inp.keep >= 2
    /\ Cardinality(list_run_dirs(inp.content)) >= inp.keep + 2
    /\ Cardinality(list_run_dirs(out.remaining)) = inp.keep
    /\ \E p \in out.remaining, q \in inp.content \ out.remaining : Len(p.suffix) < Len(q.suffix)

\* C27: with no sampled frame the caption goes to the bottom-centre region of a 1280x720
\* frame: 90% of the width, 15% of the height, top edge at 78% of the height (truncated),
\* horizontally centred, whatever the footage is.
C27_BottomCentre ==
    (out.fn = "place" /\ inp.scores = << >>) =>
        /\ ~out.result.region.found
        /\ out.result.box.w * 10 = 1280 * 9
        /\ out.result.box.h * 100 = 720 * 15
        /\ out.result.box.y = (720 * 78) \div 100
        /\ 2 * out.result.box.x + out.result.box.w = 1280

\* placement without frames, for footage that is not 1280x720
C27_Witness ==
    /\ out.fn = "place" /\ inp.scores = << >> /\ inp.size # <<1280, 720>>
    /\ out.result.box = [x |-> 64, y |-> 561, w |-> 1152, h |-> 108]

\* the summed edge score of cell k over the first n sampled frames of the input
RECURSIVE TotalScore(_, _)
TotalScore(k, n) == IF n = 0 THEN 0 ELSE inp.scores[n][k] + TotalScore(k, n - 1)

\* cell k has the lowest total over all frames and no cell before it has the same total
FirstLowest(k) ==
    LET n == Len(inp.scores)
    IN  /\ \A j \in 1..9 : TotalScore(k, n) <= TotalScore(j, n)
        /\ \A j \in 1..(k - 1) : TotalScore(j, n) > TotalScore(k, n)

\* C28: with at least one sampled frame the selected region is the grid cell with the
\* lowest average edge score over the frames, the first such cell in row-major order on a
\* tie, and the returned rectangle is that cell's position and size.
C28_CalmestCell ==
    (out.fn = "place" /\ inp.scores # << >>) =>
        \E k \in 1..9 :
            /\ FirstLowest(k)
            /\ out.result.region =
                  [found |-> TRUE,
                   x |-> ((k - 1) % 3) * (inp.size[1] \div 3),
                   y |-> ((k - 1) \div 3) * (inp.size[2] \div 3),
                   w |-> inp.size[1] \div 3,
                   h |-> inp.size[2] \div 3]

\* three frames whose totals tie on two cells, neither the first cell of the grid: the
\* earlier one, in the middle row, is selected
C28_Witness ==
    /\ out.fn = "place" /\ Len(inp.scores) = 3
    /\ FirstLowest(5)
    /\ TotalScore(9, 3) = TotalScore(5, 3)
    /\ inp.scores[1] # inp.scores[2]
    /\ out.result.region.x = inp.size[1] \div 3 /\ out.result.region.y = inp.size[2] \div 3

\* C29: a selected cell is shrunk to 90% of its width and 60% of its height (truncated)
\* and centred in itself, so the caption box lies inside the cell for every position and
\* size of the cell.
C29_BoxInsideCell ==
    out.fn = "box" =>
        /\ out.box.w = (inp.w * 9) \div 10 /\ out.box.h = (inp.h * 6) \div 10
        /\ inp.x <= out.box.x /\ out.box.x + out.box.w <= inp.x + inp.w
        /\ inp.y <= out.box.y /\ out.box.y + out.box.h <= inp.y + inp.h
        /\ (inp.x + inp.w) - (out.box.x + out.box.w) - (out.box.x - inp.x) \in {0, 1}
        /\ (inp.y + inp.h) - (out.box.y + out.box.h) - (out.box.y - inp.y) \in {0, 1}

\* a cell away from the origin whose shrunk width and height are both truncated
C29_Witness ==
    /\ out.fn = "box" /\ inp.x > 0 /\ inp.y > 0
    /\ inp.w = 11 /\ inp.h = 4
    /\ out.box = [x |-> inp.x + 1, y |-> inp.y + 1, w |-> 9, h |-> 2]

\* str.split(sep): the pieces of a string between the separators
RECURSIVE SplitOn(_, _)
SplitOn(str, sep) ==
    IF \A i \in DOMAIN str : str[i] # sep THEN <<str>>
    ELSE LET i == CHOOSE i \in DOMAIN str : str[i] = sep /\ \A j \in 1..(i - 1) : str[j] # sep
         IN  <<SubSeq(str, 1, i - 1)>> \o SplitOn(SubSeq(str, i + 1, Len(str)), sep)

IsWord(t) == t > 0

\* the words of a string, in order
WordsIn(str) == SelectSeq(str, IsWord)

\* C30: the wrapped text holds exactly the words of the input, in order and each once; a
\* line of more than one word fits the available width (a word was appended only while
\* the line stayed within it), and every line break is at an overflow: the next line
\* starts with the word that no longer fitted on the line before.
C30_WrapKeepsWords ==
    out.fn = "wrap" =>
        LET lines == SplitOn(out.text, NEWLINE)
        IN  /\ WordsIn(out.text) = inp.words
            /\ \A i \in DOMAIN lines :
                  /\ lines[i] = JoinWords(WordsIn(lines[i]))
                  /\ Len(WordsIn(lines[i])) > 1 => textlength(lines[i]) <= inp.max_width
            /\ \A i \in 1..(Len(lines) - 1) :
                  /\ WordsIn(lines[i + 1]) # << >>
                  /\ textlength(JoinWords(Append(WordsIn(lines[i]), WordsIn(lines[i + 1])[1])))
                        > inp.max_width

\* four words wrapped into three lines, the middle one of two words
C30_Witness ==
    /\ out.fn = "wrap" /\ Len(inp.words) = 4
    /\ Len(SplitOn(out.text, NEWLINE)) = 3
    /\ Len(WordsIn(SplitOn(out.text, NEWLINE)[2])) = 2
    /\ WordsIn(SplitOn(out.text, NEWLINE)[1]) # << >>

\* C31: load_theme returns a theme for every requested name and every configured
\* default_theme; when the requested name is absent from the theme table it returns the
\* built-in default theme.
C31_Original ==
    out.fn = "theme" =>
        /\ out.result.raised = "none"
        /\ (inp.name # "" /\ inp.name \notin DOMAIN load_config(inp.file).themes)
              => out.result.theme = Defaults.themes.modern

\* C32: a job's progress is within 0..100 in every state, never decreases, and is 100
\* exactly when the status is done.
C32_Original ==
    /\ [](\A r \in Jobs :
            /\ JOBS[r].progress \in 0..100
            /\ JOBS[r].progress = 100 <=> JOBS[r].status = "done")
    /\ [][\A r \in Jobs : r \in DOMAIN JOBS' /\ JOBS'[r].progress >= JOBS[r].progress]_vars

\* C33: a job whose status is failed has no final artifact path, also when the step that
\* failed is the preview copy made after the final artifact was produced.
C33_Original ==
    \A r \in Jobs : JOBS[r].status = "failed" => JOBS[r].final = "None"

C35_OneLoop ==
    /\ [](~sched.second)
    /\ [][(resp'.op = "start" /\ LoopAlive) => sched' = sched]_vars

\* a start request that passed the availability and configuration tests was
\* handled while the loop was running
C35_Witness ==
    /\ resp.op = "start"
    /\ resp.detail = "NameError"
    /\ LoopAlive
    /\ sched.file.active

\* C36: the post times chosen in automatic mode are pairwise distinct, sorted,
\* and min(frequency, available) many, so that one pass of the loop over them
\* finds at most one post time equal to the current minute.
C36_Original ==
    (out.fn = "times" /\ inp.mode = "automatic") =>
        LET times == out.times
            available == Len(AllTimes(inp.platforms))
        IN  /\ \A i, j \in DOMAIN times : i # j => times[i] # times[j]
            /\ \A i \in 1..(Len(times) - 1) : times[i] <= times[i + 1]
            /\ Len(times) = Min(inp.frequency_per_day, available)
            /\ \A now \in {times[i] : i \in DOMAIN times} :
                  Cardinality({i \in DOMAIN times : times[i] = now}) <= 1

\* C37: retention deletes only directories named postbot_... that lie directly
\* in the base directory it was given: no other directory, no file, nothing in
\* another directory, and never the working directory of a job.
C37_RetentionFrame ==
    out.fn = "retain" =>
        /\ out.tree \subseteq inp.tree
        /\ \A t \in inp.tree \ out.tree :
              t.kind = "dir" /\ t.prefix = "postbot_" /\ t.parent = inp.base_dir
        /\ JobWorkdir \in out.tree

\* retention of the temporary directory deleted a run directory, beside a file
\* named postbot_... and a directory of another name in it
C37_Witness ==
    /\ out.fn = "retain"
    /\ inp.base_dir = "tmp"
    /\ inp.tree # out.tree
    /\ \E t \in out.tree : t.parent = "tmp" /\ t.kind = "file" /\ t.prefix = "postbot_"
    /\ \E t \in out.tree : t.parent = "tmp" /\ t.kind = "dir" /\ t.prefix = "cap_frames_"

\* C38: wrap_text emits no empty line, and every emitted line of more than one
\* word is no wider than the available width, whatever the words are, a single
\* word wider than the available width included.
C38_Original ==
    (out.fn = "wrap" /\ inp.words # << >>) =>
        LET lines == SplitOn(out.text, NEWLINE)
        IN  \A i \in DOMAIN lines :
               /\ lines[i] # << >>
               /\ Len(WordsIn(lines[i])) > 1 => textlength(lines[i]) <= inp.max_width

\* C39: updates of the voice memory are not lost: once two set_voice_tone calls
\* for topics with different keys have both returned, the stored memory holds
\* an entry for both; and get_voice_tone for a topic without entry returns the
\* default voice and tone and leaves the stored entries as they are.
C39_Original ==
    /\ [](\A c, d \in Callers :
            LET cc == memory.callers[c]
                cd == memory.callers[d]
            IN  (/\ cc.pc = "done" /\ cc.op = "set"
                 /\ cd.pc = "done" /\ cd.op = "set"
                 /\ lower(cc.topic) # lower(cd.topic))
                  => /\ memory.entries[lower(cc.topic)] # NoEntry
                     /\ memory.entries[lower(cd.topic)] # NoEntry)
    /\ [](\A c \in Callers :
            LET cc == memory.callers[c]
            IN  (cc.pc = "done" /\ cc.op = "get" /\ cc.data[lower(cc.topic)] = NoEntry)
                  => cc.ret = DefaultVoice)
    /\ [][\A c \in Callers :
            (memory.callers[c].op = "get" /\ memory'.callers[c].pc = "done"
                /\ memory.callers[c].pc = "load")
              => memory'.entries = memory.entries]_vars

====
